---- MODULE Spec2Model ----
(***************************************************************************)
(* TraceHawk X orchestration core: the module registry, the phase          *)
(* pipeline of Orchestrator.Execute, the errgroup/semaphore admission of   *)
(* executeModules, the per-module executeModule, the guarded append        *)
(* helpers of Scan, and the scoring engine in float64 arithmetic.          *)
(***************************************************************************)
EXTENDS Integers, Sequences, FiniteSets, TLC

\* ------------------------------------------------------------------ bounds

\* Number of Add* calls one execution unit (a module's run, a test goroutine)
\* makes; the code puts no limit on it.
MaxCalls == 1

\* Number of bleeding-edge modules carried in the registry, in the order of
\* the Register calls of the bleeding-edge package's init() (which makes six).
MaxBleeding == 4

\* ------------------------------------------------------- program constants

\* sem := make(chan struct{}, 3)
SemCapacity == 3

\* phases := []struct{...}{ Discovery, ..., Reporting }
NumPhases == 6

\* The last phase that runs modules through executeModules.
LastModulePhase == 4

\* ------------------------------------------------------------ static data

PhaseNames ==
    <<"Discovery", "Scanning", "Vulnerability Assessment",
      "Bleeding Edge", "Scoring", "Reporting">>

\* Mutant: the Scanning list names a module of the Bleeding Edge list too.
scanningModulesOverlap == <<"naabu", "nmap", "llm-fuzzer">>

discoveryModules == <<"subfinder", "amass", "dnsx", "asnmap">>
scanningModules  == <<"naabu", "nmap", "httpx">>
vulnModules      == <<"nuclei", "katana", "ffuf">>
bleedingModules  ==
    <<"llm-fuzzer", "auto-patch", "shadow-clone", "dep-drift",
      "timing-map", "blue-team">>

\* The static name list and the category each module phase passes to
\* executeModules.
PhaseModules(p) ==
    CASE p = 1 -> discoveryModules
      [] p = 2 -> scanningModules
      [] p = 3 -> vulnModules
      [] p = 4 -> bleedingModules
      [] OTHER -> << >>

PhaseCategory(p) == IF p = 4 THEN "bleeding-edge" ELSE "stable"

Range(s) == {s[i] : i \in 1..Len(s)}

Names == UNION {Range(PhaseModules(p)) : p \in 1..LastModulePhase}

\* The phase whose static list names module m (the lists are disjoint).
PhaseOf(m) == CHOOSE p \in 1..LastModulePhase : m \in Range(PhaseModules(p))

\* A Module as the registry and the orchestrator see it: its Name(), its
\* Category() and its identity (two modules can carry the same name).
Module(n, c, i) == [name |-> n, category |-> c, id |-> i]

\* The value of registry.modules at a key that is not in the map.
NoModule == Module("", "none", 0)

\* registry.modules as populated by the init() functions of the stable and
\* bleeding-edge packages: name -> module, NoModule when not registered.
StableRegistered == {"subfinder", "nmap", "httpx", "nuclei"}
BleedingRegistered == {bleedingModules[i] : i \in 1..MaxBleeding}

RealRegistry ==
    [n \in Names |->
        IF n \in StableRegistered THEN Module(n, "stable", 1)
        ELSE IF n \in BleedingRegistered THEN Module(n, "bleeding-edge", 1)
        ELSE NoModule]

\* A registry as a build with other module packages leaves it: Register
\* accepts any Category(), so a name of a stable phase can be registered
\* under "bleeding-edge" and a name of the Bleeding Edge phase under
\* "stable".
CrossRegistry ==
    [n \in Names |->
        CASE n = "subfinder" -> Module(n, "stable", 1)
          [] n = "amass" -> Module(n, "bleeding-edge", 1)
          [] n = "llm-fuzzer" -> Module(n, "stable", 1)
          [] OTHER -> NoModule]

Registries == {RealRegistry}

\* Modules whose Prerequisites() can fail (exec.LookPath); the bleeding-edge
\* modules' Prerequisites() return nil unconditionally.
PrereqMayFail(m) == m \in StableRegistered

\* ScanConfig: the fields the orchestration core could read.
Configs ==
    [BleedingEdge : BOOLEAN, Threads : {1, 50}, RateLimit : {150}]

TargetLists == {<< >>, <<"example.com">>}

Kinds == {"host", "vuln", "patch"}

\* Modules whose Run calls scan.AddHost (subfinder per subdomain, nmap per
\* target); the other registered modules are placeholders that add nothing.
HostModules == {"subfinder", "nmap"}

\* Independent goroutines calling the Scan helpers directly, as the tests of
\* the modules package do.
Workers == {"w1", "w2", "w3"}

Units == Names \cup Workers

\* Entries already in an accumulator before the concurrent calls start.
SeedEntry(i) == [by |-> "seed", n |-> i]

\* The accumulators at the start of the concurrent helper calls: of lengths
\* one, zero and two.
InitialAccumulator(kind) ==
    CASE kind = "host" -> <<SeedEntry(1)>>
      [] kind = "vuln" -> << >>
      [] kind = "patch" -> <<SeedEntry(1), SeedEntry(2)>>

\* Goroutines (init functions, tests) that each call Register once.
Registrars == {"r1", "r2", "r3"}

\* ---------------------------------------------------------- float64

\* Natural numbers beyond the checker's integers are sequences of limbs,
\* least significant first, with no zero limb at the high end; << >> is 0.
LimbBits == 15
LimbBase == 32768

\* Bits of the significand of a float64.
MantissaBits == 53

\* Extra quotient bits computed by a division before rounding.
GuardBits == 60

RECURSIVE Pow2(_)
Pow2(n) == IF n = 0 THEN 1 ELSE 2 * Pow2(n - 1)

RECURSIVE IntBitLen(_)
IntBitLen(n) == IF n = 0 THEN 0 ELSE 1 + IntBitLen(n \div 2)

RECURSIVE Trim(_)
Trim(a) ==
    IF a = << >> THEN a
    ELSE IF a[Len(a)] = 0 THEN Trim(SubSeq(a, 1, Len(a) - 1))
    ELSE a

RECURSIVE BigFromInt(_)
BigFromInt(n) ==
    IF n = 0 THEN << >>
    ELSE <<n % LimbBase>> \o BigFromInt(n \div LimbBase)

RECURSIVE BigToInt(_)
BigToInt(a) ==
    IF a = << >> THEN 0 ELSE a[1] + LimbBase * BigToInt(Tail(a))

Limb(a, i) == IF i <= Len(a) THEN a[i] ELSE 0

MaxOf(x, y) == IF x >= y THEN x ELSE y

RECURSIVE AddFrom(_, _, _, _, _)
AddFrom(a, b, i, carry, acc) ==
    IF i > MaxOf(Len(a), Len(b))
    THEN IF carry = 0 THEN acc ELSE Append(acc, carry)
    ELSE AddFrom(a, b, i + 1,
                 (Limb(a, i) + Limb(b, i) + carry) \div LimbBase,
                 Append(acc, (Limb(a, i) + Limb(b, i) + carry) % LimbBase))

BigAdd(a, b) == AddFrom(a, b, 1, 0, << >>)

RECURSIVE SubFrom(_, _, _, _, _)
SubFrom(a, b, i, borrow, acc) ==
    IF i > Len(a) THEN Trim(acc)
    ELSE SubFrom(a, b, i + 1,
                 IF a[i] - Limb(b, i) - borrow < 0 THEN 1 ELSE 0,
                 Append(acc, (a[i] - Limb(b, i) - borrow + LimbBase)
                                 % LimbBase))

\* a - b for a >= b.
BigSub(a, b) == SubFrom(a, b, 1, 0, << >>)

RECURSIVE CmpFrom(_, _, _)
CmpFrom(a, b, i) ==
    IF i = 0 THEN 0
    ELSE IF a[i] > b[i] THEN 1
    ELSE IF a[i] < b[i] THEN -1
    ELSE CmpFrom(a, b, i - 1)

\* -1, 0 or 1 as a is below, equal to or above b.
BigCmp(a, b) ==
    IF Len(a) > Len(b) THEN 1
    ELSE IF Len(a) < Len(b) THEN -1
    ELSE CmpFrom(a, b, Len(a))

RECURSIVE MulSmallFrom(_, _, _, _, _)
MulSmallFrom(a, k, i, carry, acc) ==
    IF i > Len(a)
    THEN IF carry = 0 THEN acc ELSE Append(acc, carry)
    ELSE MulSmallFrom(a, k, i + 1, (a[i] * k + carry) \div LimbBase,
                      Append(acc, (a[i] * k + carry) % LimbBase))

\* a * k for 0 < k < LimbBase.
BigMulSmall(a, k) == MulSmallFrom(a, k, 1, 0, << >>)

BigShlLimbs(a, n) == IF a = << >> THEN a ELSE [i \in 1..n |-> 0] \o a

RECURSIVE MulFrom(_, _, _, _)
MulFrom(a, b, i, acc) ==
    IF i > Len(b) THEN acc
    ELSE MulFrom(a, b, i + 1,
                 IF b[i] = 0 THEN acc
                 ELSE BigAdd(acc, BigShlLimbs(BigMulSmall(a, b[i]), i - 1)))

BigMul(a, b) == MulFrom(a, b, 1, << >>)

RECURSIVE DivSmallFrom(_, _, _, _, _)
DivSmallFrom(a, k, i, rem, acc) ==
    IF i = 0 THEN [q |-> Trim(acc), r |-> rem]
    ELSE DivSmallFrom(a, k, i - 1, (rem * LimbBase + a[i]) % k,
                      <<(rem * LimbBase + a[i]) \div k>> \o acc)

\* Quotient and remainder of a by k, for 0 < k < LimbBase.
BigDivSmall(a, k) == DivSmallFrom(a, k, Len(a), 0, << >>)

\* a * 2^n.
BigShl(a, n) ==
    BigShlLimbs(BigMulSmall(a, Pow2(n % LimbBits)), n \div LimbBits)

\* a \div 2^n.
BigShr(a, n) ==
    IF n \div LimbBits >= Len(a) THEN << >>
    ELSE BigDivSmall(SubSeq(a, n \div LimbBits + 1, Len(a)),
                     Pow2(n % LimbBits)).q

\* a % 2^n.
BigLow(a, n) ==
    IF n \div LimbBits >= Len(a) THEN a
    ELSE Trim(SubSeq(a, 1, n \div LimbBits)
              \o <<a[n \div LimbBits + 1] % Pow2(n % LimbBits)>>)

BigBitLen(a) ==
    IF a = << >> THEN 0
    ELSE LimbBits * (Len(a) - 1) + IntBitLen(a[Len(a)])

BigIsOdd(a) == a # << >> /\ a[1] % 2 = 1

\* A finite float64 as sign, significand and exponent: the value
\* s * m * 2^e, where m is zero or has exactly MantissaBits bits.  The
\* exponent is not bounded (the scores are far from the overflow and
\* underflow thresholds) and the sign of zero is not kept.
FZero == [s |-> 1, m |-> << >>, e |-> 0]

\* Whether the part cut off at shift sh rounds the kept part q up:
\* round-to-nearest, ties to even; sticky says that a nonzero remainder
\* lies below the last bit of M.
RoundsUp(M, sh, sticky) ==
    LET c == BigCmp(BigLow(M, sh), BigShl(<<1>>, sh - 1)) IN
        c = 1 \/ (c = 0 /\ (sticky \/ BigIsOdd(BigShr(M, sh))))

\* A significand of MantissaBits + 1 bits after the round up is 2^53.
Renormalize(s, q, e) ==
    IF BigBitLen(q) > MantissaBits
    THEN [s |-> s, m |-> BigShr(q, 1), e |-> e + 1]
    ELSE [s |-> s, m |-> q, e |-> e]

\* The float64 nearest to s * M * 2^e (plus the sticky remainder).
RoundToFloat(s, M, e, sticky) ==
    IF M = << >> THEN FZero
    ELSE IF BigBitLen(M) <= MantissaBits
    THEN [s |-> s, m |-> BigShl(M, MantissaBits - BigBitLen(M)),
          e |-> e - (MantissaBits - BigBitLen(M))]
    ELSE Renormalize(s,
                     IF RoundsUp(M, BigBitLen(M) - MantissaBits, sticky)
                     THEN BigAdd(BigShr(M, BigBitLen(M) - MantissaBits), <<1>>)
                     ELSE BigShr(M, BigBitLen(M) - MantissaBits),
                     e + (BigBitLen(M) - MantissaBits))

\* float64(n) for an integer n.
FFromInt(n) ==
    IF n >= 0 THEN RoundToFloat(1, BigFromInt(n), 0, FALSE)
    ELSE RoundToFloat(-1, BigFromInt(-n), 0, FALSE)

FNeg(x) == IF x.m = << >> THEN x ELSE [x EXCEPT !.s = -x.s]

\* x * y.
FMul(x, y) ==
    IF x.m = << >> \/ y.m = << >> THEN FZero
    ELSE RoundToFloat(x.s * y.s, BigMul(x.m, y.m), x.e + y.e, FALSE)

MinOf(x, y) == IF x <= y THEN x ELSE y

\* The sum of two aligned magnitudes with their signs.
SignedSum(sx, mx, sy, my, e) ==
    IF sx = sy THEN RoundToFloat(sx, BigAdd(mx, my), e, FALSE)
    ELSE IF BigCmp(mx, my) >= 0
    THEN RoundToFloat(sx, BigSub(mx, my), e, FALSE)
    ELSE RoundToFloat(sy, BigSub(my, mx), e, FALSE)

\* x + y.
FAdd(x, y) ==
    IF x.m = << >> THEN y
    ELSE IF y.m = << >> THEN x
    ELSE SignedSum(x.s, BigShl(x.m, x.e - MinOf(x.e, y.e)),
                   y.s, BigShl(y.m, y.e - MinOf(x.e, y.e)),
                   MinOf(x.e, y.e))

\* x / n for an integer 0 < n < LimbBase: the quotient of the exact
\* division, correctly rounded.
FDivInt(x, n) ==
    IF x.m = << >> THEN FZero
    ELSE LET d == BigDivSmall(BigShl(x.m, GuardBits), n) IN
         RoundToFloat(x.s, d.q, x.e - GuardBits, d.r # 0)

\* The float64 a decimal literal p/q of the source denotes.
Dec(p, q) == FDivInt(FFromInt(p), q)

\* -1, 0 or 1 as x is below, equal to or above y.
FCmp(x, y) ==
    IF x.m = << >> /\ y.m = << >> THEN 0
    ELSE IF x.m = << >> THEN -y.s
    ELSE IF y.m = << >> THEN x.s
    ELSE IF x.s # y.s THEN x.s
    ELSE IF x.e # y.e THEN (IF x.e > y.e THEN x.s ELSE -x.s)
    ELSE x.s * BigCmp(x.m, y.m)

\* math.Round: the nearest integer, halves away from zero.
MathRound(x) ==
    IF x.m = << >> \/ x.e >= 0 THEN x
    ELSE IF BigCmp(BigLow(x.m, -x.e), BigShl(<<1>>, -x.e - 1)) >= 0
    THEN RoundToFloat(x.s, BigAdd(BigShr(x.m, -x.e), <<1>>), 0, FALSE)
    ELSE RoundToFloat(x.s, BigShr(x.m, -x.e), 0, FALSE)

\* The integer value of an integral float64 within the checker's integers.
FToInt(x) ==
    IF x.m = << >> THEN 0
    ELSE IF x.e >= 0 THEN x.s * BigToInt(BigShl(x.m, x.e))
    ELSE x.s * BigToInt(BigShr(x.m, -x.e))

\* ------------------------------------------------------- Scan.Context

\* The keys of Scan.Context the core reads.
ContextKeys == {"supply_chain_drift"}

\* A value of a map[string]interface{}: absent, a value of another dynamic
\* type than float64, or the float64 that the decimal num/den denotes.
NoValue == [kind |-> "absent", f |-> FZero, num |-> 0, den |-> 1]
StringValue == [kind |-> "string", f |-> FZero, num |-> 0, den |-> 1]
DecValue(p, q) == [kind |-> "float64", f |-> Dec(p, q), num |-> p, den |-> q]

\* make(map[string]interface{})
EmptyContext == [k \in ContextKeys |-> NoValue]

\* ---------------------------------------------------- scoring engine

One == FFromInt(1)
Hundred == FFromInt(100)

\* NewEngine: severityWeights, a missing key reads as 0.
severityWeights(sev) ==
    CASE sev = "critical" -> Dec(100, 10)
      [] sev = "high" -> Dec(75, 10)
      [] sev = "medium" -> Dec(50, 10)
      [] sev = "low" -> Dec(25, 10)
      [] sev = "info" -> Dec(10, 10)
      [] OTHER -> FZero

exploitWeight == Dec(15, 10)
driftWeight == Dec(2, 10)
llmWeight == Dec(2, 10)
llmFloor == Dec(8, 10)

\* x*y + z as the build computes it: two rounded operations, or one fused
\* multiply-add with a single rounding (the language allows the compiler to
\* fuse, and it does on some architectures).
MulAdd(x, y, z, fused) ==
    IF ~fused THEN FAdd(z, FMul(x, y))
    ELSE IF x.m = << >> \/ y.m = << >> THEN z
    ELSE IF z.m = << >>
    THEN RoundToFloat(x.s * y.s, BigMul(x.m, y.m), x.e + y.e, FALSE)
    ELSE SignedSum(x.s * y.s,
                   BigShl(BigMul(x.m, y.m),
                          x.e + y.e - MinOf(x.e + y.e, z.e)),
                   z.s,
                   BigShl(z.m, z.e - MinOf(x.e + y.e, z.e)),
                   MinOf(x.e + y.e, z.e))

\* Mutant: the cap is missing.
CapAt100Missing(score) == score

\* if score > 100 { score = 100 }
CapAt100(score) == IF FCmp(score, Hundred) = 1 THEN Hundred ELSE score

\* math.Round(score*100) / 100
RoundTo2(score) == FDivInt(MathRound(FMul(score, Hundred)), 100)

\* Mutant: the base severity is multiplied by ten, as the formula of the
\* README has it.
baseSeverityTimesTen(vuln) ==
    IF FCmp(severityWeights(vuln.Severity), FZero) = 0
    THEN FFromInt(10)
    ELSE FMul(severityWeights(vuln.Severity), FFromInt(10))

baseSeverity(vuln) ==
    IF FCmp(severityWeights(vuln.Severity), FZero) = 0
    THEN One
    ELSE severityWeights(vuln.Severity)

\* Mutant: the exploit weight is applied to every vulnerability.
exploitCoeffAlways(vuln) == exploitWeight

\* exploitCoeff := 1.0; if vuln.Exploitable { exploitCoeff = e.exploitWeight }
exploitCoeff(vuln) == IF vuln.Exploitable THEN exploitWeight ELSE One

driftFactor(ctx, fused) ==
    IF ctx["supply_chain_drift"].kind = "float64"
    THEN MulAdd(ctx["supply_chain_drift"].f, driftWeight, One, fused)
    ELSE One

llmConfidence(vuln, fused) ==
    IF vuln.Metadata["llm_confidence"].kind = "float64"
    THEN MulAdd(vuln.Metadata["llm_confidence"].f, llmWeight, llmFloor,
                fused)
    ELSE One

\* CalculateRiskScore.
CalculateRiskScore(vuln, ctx, fused) ==
    RoundTo2(CapAt100(FMul(FMul(FMul(baseSeverity(vuln), exploitCoeff(vuln)),
                                driftFactor(ctx, fused)),
                           llmConfidence(vuln, fused))))

\* totalScore += vuln.RiskScore, in list order.
RECURSIVE SumScores(_, _, _)
SumScores(vs, i, acc) ==
    IF i > Len(vs) THEN acc
    ELSE SumScores(vs, i + 1, FAdd(acc, vs[i].RiskScore))

\* Mutant: a vulnerability counts for the bonus of a severity when its
\* numeric score reaches the weight of that severity.
CountSeverityByScore(vs, sev) ==
    Cardinality({i \in 1..Len(vs) :
                    FCmp(vs[i].RiskScore, severityWeights(sev)) >= 0})

\* criticalCount / highCount of CalculateOverallRiskScore.
CountSeverity(vs, sev) ==
    Cardinality({i \in 1..Len(vs) : vs[i].Severity = sev})

criticalBonusWeight == Dec(50, 10)
highBonusWeight == Dec(20, 10)

\* CalculateOverallRiskScore: 0.0 for no vulnerability, otherwise the mean
\* of the stored scores plus the bonuses, capped and rounded.  The bonus
\* products are exact, so fusing them into the additions changes nothing.
CalculateOverallRiskScore(vs) ==
    IF Len(vs) = 0 THEN FZero
    ELSE RoundTo2(CapAt100(
            FAdd(FAdd(FDivInt(SumScores(vs, 1, FZero), Len(vs)),
                      FMul(FFromInt(CountSeverity(vs, "critical")),
                           criticalBonusWeight)),
                 FMul(FFromInt(CountSeverity(vs, "high")),
                      highBonusWeight))))

\* ------------------------------------------------------ ScanSummary

\* The counters of ScanSummary (RiskScore and ModulesExecuted are state
\* variables of their own).
ZeroSummary ==
    [TotalHosts |-> 0, AliveHosts |-> 0, TotalPorts |-> 0, OpenPorts |-> 0,
     TotalVulns |-> 0, CriticalVulns |-> 0, HighVulns |-> 0,
     MediumVulns |-> 0, LowVulns |-> 0, ExploitableVulns |-> 0,
     HighRiskVulns |-> 0]

\* host.Ports / host.Services of a HostResult; the hosts the modelled
\* modules add carry none.
HostPorts(h) == IF "Ports" \in DOMAIN h THEN h.Ports ELSE << >>
HostServices(h) == IF "Services" \in DOMAIN h THEN h.Services ELSE << >>

RECURSIVE SumOver(_, _, _)
SumOver(f, i, acc) ==
    IF i > Len(f) THEN acc ELSE SumOver(f, i + 1, acc + f[i])

\* Mutant: AliveHosts is not reset to 0 before the hosts are counted.
updateScanSummaryAccumulates(sum, hs, vs) ==
    [sum EXCEPT
       !.TotalHosts = Len(hs),
       !.AliveHosts =
          @ + Cardinality({i \in 1..Len(hs) :
                             Len(HostPorts(hs[i])) > 0
                             \/ Len(HostServices(hs[i])) > 0}),
       !.TotalVulns = Len(vs)]

\* updateScanSummary: the host, port and vulnerability counters are
\* recomputed from the results; HighRiskVulns is not touched.
updateScanSummary(sum, hs, vs) ==
    [sum EXCEPT
       !.TotalHosts = Len(hs),
       !.AliveHosts =
          Cardinality({i \in 1..Len(hs) :
                         Len(HostPorts(hs[i])) > 0
                         \/ Len(HostServices(hs[i])) > 0}),
       !.TotalPorts = SumOver([i \in 1..Len(hs) |-> Len(HostPorts(hs[i]))],
                              1, 0),
       !.OpenPorts =
          SumOver([i \in 1..Len(hs) |->
                     Cardinality({j \in 1..Len(HostPorts(hs[i])) :
                                    HostPorts(hs[i])[j].State = "open"})],
                  1, 0),
       !.TotalVulns = Len(vs),
       !.CriticalVulns = CountSeverity(vs, "critical"),
       !.HighVulns = CountSeverity(vs, "high"),
       !.MediumVulns = CountSeverity(vs, "medium"),
       !.LowVulns = CountSeverity(vs, "low"),
       !.ExploitableVulns =
          Cardinality({i \in 1..Len(vs) : vs[i].Exploitable})]

\* Mutant: a vulnerability that already stores a score other than 0 keeps
\* it.
ScoreAllKeepsStored(vs, ctx, fused) ==
    [i \in 1..Len(vs) |->
        IF vs[i].RiskScore # FZero THEN vs[i]
        ELSE [vs[i] EXCEPT
                !.RiskScore = CalculateRiskScore(vs[i], ctx, fused)]]

\* The loop of runScoringPhase: every vulnerability gets its score.
ScoreAll(vs, ctx, fused) ==
    [i \in 1..Len(vs) |->
        [vs[i] EXCEPT !.RiskScore = CalculateRiskScore(vs[i], ctx, fused)]]

\* if score >= 70.0 { Summary.HighRiskVulns++ }
highRiskThreshold == FFromInt(70)

CountHighRisk(vs) ==
    Cardinality({i \in 1..Len(vs) :
                   FCmp(vs[i].RiskScore, highRiskThreshold) >= 0})

VARIABLES
    registry,        \* modules.registry: name -> category
    config,          \* o.config
    targets,         \* o.scan.Targets
    cancelled,       \* ctx.Done() is closed
    pc,              \* position of Execute
    phase,           \* index of the phase of the loop in Execute (0 before)
    outcome,         \* what Execute returned: kind, phase, cause
    active,          \* activeModules of the executeModules call in progress
    spawned,         \* number of g.Go calls made by that call
    gpc,             \* per unit: position of its goroutine
    res,             \* per module: what its goroutine observed/returned
    callKind,        \* per unit: the Add* helper it is inside
    local,           \* per unit: the slice value it read and appends to
    calls,           \* per unit: the Add* calls it has completed, in order
    sem,             \* per phase: occupied slots of that phase's semaphore
    gErr,            \* per phase: the errgroup's first error
    mu,              \* holder of Results.mu
    hosts,           \* Results.Hosts
    vulns,           \* Results.Vulnerabilities
    patches,         \* Results.Patches
    bleedingEdge,    \* Results.BleedingEdge
    modulesExecuted, \* Results.Summary.ModulesExecuted
    probed,          \* modules whose Prerequisites() that call has invoked
    rejected,        \* modules whose Prerequisites() returned an error
    context,         \* Scan.Context
    riskScore,       \* Results.Summary.RiskScore
    summary,         \* the counters of Results.Summary
    fmaBuild,        \* the build fuses x*y + z into one rounded operation
    regMu,           \* holder of registry.mu
    rpc,             \* per registering goroutine: position in Register
    pending,         \* per registering goroutine: the module it registers
    fatal,           \* logrus.Fatalf has ended the process
    ret,             \* the last direct call: function, arguments, result
    ncalls,          \* number of direct calls made
    sandboxActive,   \* sandbox.Manager.active
    runLog,          \* the invocations Module.Run has received, in order
    scanMu,          \* Scan.mu: the writer and the readers holding it
    cpc,             \* per context caller: position in Get/SetContext
    cop,             \* per context caller: the call it makes
    cres,            \* per context caller: what GetContext returned
    settled,         \* per key: value of the last SetContext that returned
    availableModules, \* executeModules: the slice GetModulesByCategory gave
    nameIdx,         \* executeModules: names of the list the filter has seen
    prereqLog        \* the latest executeModules: Prerequisites() calls, in order

vars ==
    <<registry, config, targets, cancelled, pc, phase, outcome, active,
      spawned, gpc, res, callKind, local, calls, sem, gErr, mu, hosts, vulns,
      patches, modulesExecuted, probed, rejected, context, riskScore, summary,
      fmaBuild, regMu, rpc, pending, fatal, ret, ncalls, sandboxActive,
      runLog, scanMu, cpc, cop, cres, settled, bleedingEdge,
      availableModules, nameIdx, prereqLog>>

filterVars == <<probed, rejected>>
regVars == <<regMu, rpc, pending, fatal>>
scoreVars == <<context, riskScore, summary, fmaBuild>>

execVars == <<pc, phase, outcome, active, spawned>>
resultVars == <<hosts, vulns, patches, bleedingEdge>>
inputVars == <<registry, config, targets>>
engineVars == <<ret, ncalls>>
sandboxVars == <<sandboxActive, runLog>>
ctxVars == <<scanMu, cpc, cop, cres, settled>>
loopVars == <<availableModules, nameIdx, prereqLog>>
directVars == <<engineVars, sandboxVars, ctxVars, loopVars>>

\* make(map[string]interface{}) of NewOrchestrator: no module id has a
\* result.
BleedingIds == {"llm-fuzzer", "shadow-clone"}
NoBleedingEdge == [id \in BleedingIds |-> "none"]

NoOutcome == [kind |-> "running", phase |-> 0, cause |-> "nil"]

\* Goroutines calling scan.GetContext / scan.SetContext, and the keys they
\* use: the key of the tests and the key the scoring engine reads.
CtxCallers == {"g1", "g2", "g3"}
CtxKeys == {"test_key", "supply_chain_drift"}

\* No direct call has been made.
NoCall == [fn |-> "none", arg |-> << >>, val |-> "none"]

\* A sync.RWMutex nobody holds.
FreeRW == [writer |-> "none", readers |-> {}]

NoCtxOp == [op |-> "none", key |-> "", value |-> NoValue]

\* No direct call to the scoring engine is in progress or was made.
EngineIdle ==
    /\ ret = NoCall
    /\ ncalls = 0

\* sandbox.NewManager: active is false; no module has been run.
SandboxIdle ==
    /\ sandboxActive = FALSE
    /\ runLog = << >>

\* No goroutine is inside GetContext / SetContext.
CtxIdle ==
    /\ scanMu = FreeRW
    /\ cpc = [c \in CtxCallers |-> "idle"]
    /\ cop = [c \in CtxCallers |-> NoCtxOp]
    /\ cres = [c \in CtxCallers |-> NoValue]
    /\ settled = [k \in CtxKeys |-> NoValue]

\* executeModules is not inside its filter loop.
LoopIdle ==
    /\ availableModules = << >>
    /\ nameIdx = 0
    /\ prereqLog = << >>

DirectIdle == EngineIdle /\ SandboxIdle /\ CtxIdle /\ LoopIdle

PipelineInit(registries) ==
    /\ registry \in registries
    /\ config \in Configs
    /\ targets \in TargetLists
    /\ cancelled = FALSE
    /\ pc = "validate"
    /\ phase = 0
    /\ outcome = NoOutcome
    /\ active = << >>
    /\ spawned = 0
    /\ gpc = [u \in Units |-> "idle"]
    /\ res = [m \in Names |-> "none"]
    /\ callKind = [u \in Units |-> "none"]
    /\ local = [u \in Units |-> << >>]
    /\ calls = [u \in Units |-> << >>]
    /\ sem = [p \in 1..LastModulePhase |-> 0]
    /\ gErr = [p \in 1..LastModulePhase |-> "nil"]
    /\ mu = "free"
    /\ hosts = << >>
    /\ vulns = << >>
    /\ patches = << >>
    /\ bleedingEdge = NoBleedingEdge
    /\ modulesExecuted = << >>
    /\ probed = {}
    /\ rejected = {}
    /\ context = EmptyContext
    /\ riskScore = FZero
    /\ summary = ZeroSummary
    /\ fmaBuild = FALSE
    /\ regMu = "free"
    /\ rpc = [r \in Registrars |-> "idle"]
    /\ pending = [r \in Registrars |-> NoModule]
    /\ fatal = FALSE
    /\ DirectIdle

\* The state after NewOrchestrator, with the registry as the init()
\* functions of the module packages left it.
Init == PipelineInit(Registries)

\* ------------------------------------------------------------- registry

\* Mutant: the category filter is dropped, every registered module is
\* returned.
GetModulesByCategoryAny(reg, category) ==
    {reg[k] : k \in {n \in DOMAIN reg : reg[n] # NoModule}}

\* GetModulesByCategory: the registered modules whose Category() matches.
GetModulesByCategory(reg, category) ==
    {reg[k] : k \in {n \in DOMAIN reg :
                        reg[n] # NoModule /\ reg[n].category = category}}

\* ------------------------------------------------------------- Execute

\* The interrupt handler of main calls cancel().
Cancel ==
    /\ ~cancelled
    /\ outcome.kind = "running"
    /\ cancelled' = TRUE
    /\ UNCHANGED <<directVars, inputVars, regVars, scoreVars, filterVars,
                   execVars, gpc, res, callKind, local, calls, sem, gErr, mu,
                   resultVars, modulesExecuted>>

\* Mutant: the length of the target list is not looked at.
validateTargetsAcceptsEmpty(t) == "nil"

\* validateTargets: an empty target list is an error; modules.ValidateTargets
\* is a placeholder returning nil.
validateTargets(t) == IF Len(t) = 0 THEN "no targets specified" ELSE "nil"

\* Execute up to the phase loop: a validation error returns before any phase.
Validate ==
    /\ pc = "validate"
    /\ LET err == validateTargets(targets) IN
        IF err # "nil"
        THEN /\ outcome' = [kind |-> "failed", phase |-> 0, cause |-> err]
             /\ pc' = "done"
             /\ phase' = phase
        ELSE /\ outcome' = outcome
             /\ pc' = "enter"
             /\ phase' = 1
    /\ UNCHANGED <<directVars, inputVars, regVars, scoreVars, filterVars,
                   cancelled, active, spawned, gpc, res, callKind, local,
                   calls, sem, gErr, mu, resultVars, modulesExecuted>>

\* ------------------------------------------------------ executeModules

\* moduleMap of executeModules: the requested names, in list order, that
\* are the Name() of a module of the category; these are the modules whose
\* Prerequisites() the filter loop calls.
ResolveNames(names, reg, category) ==
    SelectSeq(names,
              LAMBDA n : \E mod \in GetModulesByCategory(reg, category) :
                            mod.name = n)

\* Mutant: a module whose Prerequisites() failed is kept.
FilterActiveKeepsFailed(names, reg, category, prereqOK) ==
    ResolveNames(names, reg, category)

\* The filter loop of executeModules: the resolved names, in list order,
\* whose Prerequisites() passed.
FilterActive(names, reg, category, prereqOK) ==
    SelectSeq(ResolveNames(names, reg, category), LAMBDA n : n \in prereqOK)

\* Mutant: runBleedingEdgePhase never skips.
BleedingEdgeNeverSkipped(c) == FALSE

\* if !o.config.BleedingEdge { return nil }
BleedingEdgeSkipped(c) == ~c.BleedingEdge

\* A module phase is entered: runBleedingEdgePhase returns nil when the
\* configuration does not enable it; otherwise executeModules filters the
\* phase's names and returns nil when none survives.
EnterModulePhase ==
    /\ pc = "enter"
    /\ phase \in 1..LastModulePhase
    /\ IF phase = LastModulePhase /\ BleedingEdgeSkipped(config)
       THEN /\ pc' = "check"
            /\ UNCHANGED <<active, spawned, probed, rejected>>
       ELSE LET resolved == ResolveNames(PhaseModules(phase), registry,
                                         PhaseCategory(phase))
            IN \E failing \in SUBSET {m \in Range(resolved) :
                                         PrereqMayFail(m)} :
                 LET act == FilterActive(PhaseModules(phase), registry,
                                         PhaseCategory(phase),
                                         Names \ failing)
                 IN /\ active' = act
                    /\ probed' = Range(resolved)
                    /\ rejected' = failing
                    /\ spawned' = 0
                    /\ pc' = IF Len(act) = 0 THEN "check" ELSE "spawn"
    /\ UNCHANGED <<directVars, inputVars, regVars, scoreVars, cancelled,
                   phase, outcome, gpc, res, callKind, local, calls, sem,
                   gErr, mu, resultVars, modulesExecuted>>

\* The g.Go loop: one goroutine per surviving module, each starting at its
\* select; then Execute blocks in g.Wait().  g.Go never blocks, and a
\* goroutine started early can always be scheduled late, so starting them
\* in one step loses no interleaving of the goroutines.
Spawn ==
    /\ pc = "spawn"
    /\ gpc' = [u \in Units |->
                 IF u \in Range(active) THEN "select" ELSE gpc[u]]
    /\ spawned' = Len(active)
    /\ pc' = "wait"
    /\ UNCHANGED <<directVars, inputVars, regVars, scoreVars, filterVars,
                   cancelled, phase, outcome, active, res, callKind, local,
                   calls, sem, gErr, mu, resultVars, modulesExecuted>>

\* Mutant: g.Wait() returns without waiting for any goroutine.
WaitDoneNobody(g, act) == TRUE

\* Mutant: g.Wait() waits for the first goroutine of the group only.
WaitDoneFirstOnly(g, act) == g[act[1]] = "done"

\* g.Wait() returns once every goroutine of the group has returned.
WaitDone(g, act) == \A i \in 1..Len(act) : g[act[i]] = "done"

\* Mutant: Execute returns the phase's error as it is, without the phase.
PhaseFailureUnwrapped(p, err) ==
    [kind |-> "failed", phase |-> 0, cause |-> err]

\* fmt.Errorf("phase %s failed: %w", phase.name, err): the error Execute
\* returns names the phase (by its index in the phases literal) and wraps
\* the error the phase function returned.
PhaseFailure(p, err) == [kind |-> "failed", phase |-> p, cause |-> err]

\* g.Wait() returns the group's first error; Execute wraps a phase error as
\* "phase <name> failed: <err>" and returns it.
Wait ==
    /\ pc = "wait"
    /\ WaitDone(gpc, active)
    /\ IF gErr[phase] # "nil"
       THEN /\ outcome' = PhaseFailure(phase, gErr[phase])
            /\ pc' = "done"
       ELSE /\ outcome' = outcome
            /\ pc' = "check"
    /\ UNCHANGED <<directVars, inputVars, regVars, scoreVars, filterVars,
                   cancelled, phase, active, spawned, gpc, res, callKind,
                   local, calls, sem, gErr, mu, resultVars, modulesExecuted>>

\* Mutant: the boundary check always takes the default branch.
BoundaryNeverCancelled(c) == FALSE

\* The select between phases: a closed ctx.Done() is always ready, so the
\* default branch is taken only when the context is not cancelled.
BoundaryCancelled(c) == c

\* Mutant: the loop skips a phase.
NextPhaseSkips(p) == p + 2

\* The phase after phase p in the loop.
NextPhase(p) == p + 1

\* The goroutines of an errgroup that have returned are gone once the phase
\* function has returned; the next phase starts a fresh group.
Released(g) == [u \in Units |-> IF g[u] = "done" THEN "idle" ELSE g[u]]

\* The boundary check after a phase returned nil, then the next iteration
\* (or the successful return after the last phase).
Check ==
    /\ pc = "check"
    /\ IF BoundaryCancelled(cancelled)
       THEN /\ outcome' = [kind |-> "cancelled", phase |-> phase,
                           cause |-> "context canceled"]
            /\ pc' = "done"
            /\ phase' = phase
       ELSE IF phase = NumPhases
       THEN /\ outcome' = [kind |-> "completed", phase |-> phase,
                           cause |-> "nil"]
            /\ pc' = "done"
            /\ phase' = phase
       ELSE /\ outcome' = outcome
            /\ pc' = "enter"
            /\ phase' = NextPhase(phase)
    /\ IF pc' = "enter"
       THEN /\ gpc' = Released(gpc)
            /\ res' = [m \in Names |->
                         IF gpc[m] = "done" THEN "none" ELSE res[m]]
            /\ active' = << >>
            /\ probed' = {}
            /\ rejected' = {}
            /\ spawned' = 0
       ELSE UNCHANGED <<gpc, res, active, spawned, probed, rejected>>
    /\ UNCHANGED <<directVars, inputVars, regVars, scoreVars, cancelled,
                   callKind, local, calls, sem, gErr, mu, resultVars,
                   modulesExecuted>>

\* ------------------------------------------------ goroutine of one module

\* ctx.Done() of the errgroup's derived context: closed when the parent is
\* cancelled or when a goroutine of the group has returned an error.
gCtxDone(c, e) == c \/ e # "nil"

\* Mutant: the semaphore admits one more than its capacity.
SemHasSlotOffByOne(s) == s <= SemCapacity

\* Mutant: the send on sem never proceeds.
SemNeverHasSlot(s) == FALSE

\* The send on sem can proceed: the channel's buffer is not full.
SemHasSlot(s) == s < SemCapacity

\* select { case sem <- struct{}{}: ... }: the module is admitted.  Go picks
\* among the ready cases at random, so this case can be taken while
\* gCtx.Done() is ready too.
Admit(m) ==
    /\ gpc[m] = "select"
    /\ SemHasSlot(sem[PhaseOf(m)])
    /\ sem' = [sem EXCEPT ![PhaseOf(m)] = @ + 1]
    /\ gpc' = [gpc EXCEPT ![m] = "run"]
    /\ UNCHANGED <<directVars, inputVars, regVars, scoreVars, filterVars,
                   cancelled, execVars, res, callKind, local, calls, gErr, mu,
                   resultVars, modulesExecuted>>

\* select { ... case <-gCtx.Done(): return gCtx.Err() }: the goroutine
\* returns the context's error, which the errgroup records if it is the
\* first.
AdmitCancelled(m) ==
    /\ gpc[m] = "select"
    /\ gCtxDone(cancelled, gErr[PhaseOf(m)])
    /\ gpc' = [gpc EXCEPT ![m] = "done"]
    /\ res' = [res EXCEPT ![m] = "canceled"]
    /\ gErr' = [gErr EXCEPT ![PhaseOf(m)] =
                   IF @ = "nil" THEN "context canceled" ELSE @]
    /\ UNCHANGED <<directVars, inputVars, regVars, scoreVars, filterVars,
                   cancelled, execVars, callKind, local, calls, sem, mu,
                   resultVars, modulesExecuted>>

\* ------------------------------------------------- Scan append helpers

\* The slice an Add* helper appends to.
Accumulator(kind) ==
    CASE kind = "host" -> hosts
      [] kind = "vuln" -> vulns
      [] kind = "patch" -> patches

\* The Add* calls completed so far, as (module, call index) pairs.
\* Mutant: the helper appends without taking the mutex.
CanLockUnguarded(holder) == TRUE

\* s.Results.mu.Lock() returns only when no one holds the mutex.
CanLock(holder) == holder = "free"

\* The i-th entry module m hands to an Add* helper.
Entry(m, i) == [by |-> m, n |-> i]

\* AddHost / AddVulnerability / AddPatch, first half, called from inside a
\* module's Run: Results.mu.Lock(), then append reads the slice.
AddLock(m, kind) ==
    /\ gpc[m] = "run"
    /\ Len(calls[m]) < MaxCalls
    /\ CanLock(mu)
    /\ mu' = m
    /\ gpc' = [gpc EXCEPT ![m] = "locked"]
    /\ callKind' = [callKind EXCEPT ![m] = kind]
    /\ local' = [local EXCEPT ![m] = Accumulator(kind)]
    /\ UNCHANGED <<directVars, inputVars, regVars, scoreVars, filterVars,
                   cancelled, execVars, res, calls, sem, gErr, resultVars,
                   modulesExecuted>>

\* Second half: the appended slice is stored back and the deferred
\* Results.mu.Unlock() runs.
AddStore(m) ==
    /\ gpc[m] = "locked"
    /\ LET new == Append(local[m], Entry(m, Len(calls[m]) + 1)) IN
        /\ hosts' = IF callKind[m] = "host" THEN new ELSE hosts
        /\ vulns' = IF callKind[m] = "vuln" THEN new ELSE vulns
        /\ patches' = IF callKind[m] = "patch" THEN new ELSE patches
    /\ calls' = [calls EXCEPT ![m] = Append(@, callKind[m])]
    /\ mu' = "free"
    /\ gpc' = [gpc EXCEPT ![m] = "run"]
    /\ callKind' = [callKind EXCEPT ![m] = "none"]
    /\ local' = [local EXCEPT ![m] = << >>]
    /\ UNCHANGED <<bleedingEdge, directVars, inputVars, regVars, scoreVars, filterVars,
                   cancelled, execVars, res, sem, gErr, modulesExecuted>>

\* ------------------------------------------------------- executeModule

\* sandbox.Manager.ExecuteModule: runs the module inside the isolation
\* layer and returns the module's result.
SandboxExecuteModule(r) == r

\* Mutant: executeModule returns the module's error to the errgroup.
executeModulePropagates(err) == err

\* What executeModule does with the error of the module: it is logged and
\* nil is returned to the errgroup either way.
executeModuleResult(err) == "nil"

\* Mutant: after a failed run the slot is not given back.
ModuleFailsKeepsSlot(m) ==
    /\ gpc[m] = "run"
    /\ \E isActive \in BOOLEAN :
         LET r == "module error"
             err == IF isActive THEN SandboxExecuteModule(r) ELSE r
         IN /\ err # "nil"
            /\ gErr' = [gErr EXCEPT ![PhaseOf(m)] =
                           IF @ = "nil" THEN executeModuleResult(err) ELSE @]
    /\ res' = [res EXCEPT ![m] = "err"]
    /\ gpc' = [gpc EXCEPT ![m] = "done"]
    /\ UNCHANGED <<directVars, inputVars, regVars, scoreVars, filterVars,
                   cancelled, execVars, callKind, local, calls, mu, sem,
                   resultVars, modulesExecuted>>

\* The module's run returned an error (directly or through the sandbox):
\* executeModule logs it and returns nil, the deferred <-sem frees the slot.
ModuleFails(m) ==
    /\ gpc[m] = "run"
    /\ \E isActive \in BOOLEAN :
         LET r == "module error"
             err == IF isActive THEN SandboxExecuteModule(r) ELSE r
         IN /\ err # "nil"
            /\ gErr' = [gErr EXCEPT ![PhaseOf(m)] =
                           IF @ = "nil" THEN executeModuleResult(err) ELSE @]
    /\ res' = [res EXCEPT ![m] = "err"]
    /\ gpc' = [gpc EXCEPT ![m] = "done"]
    /\ sem' = [sem EXCEPT ![PhaseOf(m)] = @ - 1]
    /\ UNCHANGED <<directVars, inputVars, regVars, scoreVars, filterVars,
                   cancelled, execVars, callKind, local, calls, mu,
                   resultVars, modulesExecuted>>

\* The module's run returned nil: executeModule evaluates
\* append(o.scan.Results.Summary.ModulesExecuted, mod.Name()), reading the
\* slice without holding any lock.
ModuleSucceeds(m) ==
    /\ gpc[m] = "run"
    /\ \E isActive \in BOOLEAN :
         LET r == "nil"
             err == IF isActive THEN SandboxExecuteModule(r) ELSE r
         IN err = "nil"
    /\ res' = [res EXCEPT ![m] = "ok"]
    /\ gpc' = [gpc EXCEPT ![m] = "audit"]
    /\ local' = [local EXCEPT ![m] = modulesExecuted]
    /\ UNCHANGED <<directVars, inputVars, regVars, scoreVars, filterVars,
                   cancelled, execVars, callKind, calls, sem, gErr, mu,
                   resultVars, modulesExecuted>>

\* The appended slice is assigned to Summary.ModulesExecuted, executeModule
\* returns nil and the deferred <-sem frees the slot.
AuditStore(m) ==
    /\ gpc[m] = "audit"
    /\ modulesExecuted' = Append(local[m], m)
    /\ local' = [local EXCEPT ![m] = << >>]
    /\ gpc' = [gpc EXCEPT ![m] = "done"]
    /\ sem' = [sem EXCEPT ![PhaseOf(m)] = @ - 1]
    /\ UNCHANGED <<directVars, inputVars, regVars, scoreVars, filterVars,
                   cancelled, execVars, res, callKind, calls, gErr, mu,
                   resultVars>>

\* ------------------------------------------------- Scoring and Reporting

\* Mutant: the phase does not write the scores into the vulnerabilities.
RunScoringLeavesScores ==
    /\ pc = "enter"
    /\ phase = 5
    /\ vulns' = vulns
    /\ riskScore' = CalculateOverallRiskScore(vulns')
    /\ summary' =
          updateScanSummary(
             [summary EXCEPT !.HighRiskVulns = @ + CountHighRisk(vulns')],
             hosts, vulns')
    /\ pc' = "check"
    /\ UNCHANGED <<directVars, inputVars, regVars, filterVars, context,
                   fmaBuild, cancelled, phase, outcome, active, spawned, gpc,
                   res, callKind, local, calls, sem, gErr, mu, hosts, patches, bleedingEdge,
                   modulesExecuted>>

\* runScoringPhase, on the orchestrator's own goroutine (it starts none and
\* takes no lock): every vulnerability is scored and counted as high-risk
\* at 70 or more, the overall score is stored, the summary is updated, and
\* nil is returned.
RunScoring ==
    /\ pc = "enter"
    /\ phase = 5
    /\ vulns' = ScoreAll(vulns, context, fmaBuild)
    /\ riskScore' = CalculateOverallRiskScore(vulns')
    /\ summary' =
          updateScanSummary(
             [summary EXCEPT !.HighRiskVulns = @ + CountHighRisk(vulns')],
             hosts, vulns')
    /\ pc' = "check"
    /\ UNCHANGED <<directVars, inputVars, regVars, filterVars, context,
                   fmaBuild, cancelled, phase, outcome, active, spawned, gpc,
                   res, callKind, local, calls, sem, gErr, mu, hosts, patches, bleedingEdge,
                   modulesExecuted>>

\* reporter.Generate(ctx, scan): the reporting collaborator renders the Scan
\* it receives and leaves its Results as they are.
reporterGenerate(results) == results

\* runReportingPhase: the result of reporter.Generate is the phase's result.
RunReporting ==
    /\ pc = "enter"
    /\ phase = NumPhases
    /\ \E err \in {"nil", "report error"} :
         IF err # "nil"
         THEN /\ outcome' = PhaseFailure(phase, err)
              /\ pc' = "done"
         ELSE /\ outcome' = outcome
              /\ pc' = "check"
    /\ LET after == reporterGenerate([hosts |-> hosts, vulns |-> vulns,
                                      patches |-> patches])
       IN /\ hosts' = after.hosts
          /\ vulns' = after.vulns
          /\ patches' = after.patches
    /\ UNCHANGED <<bleedingEdge, directVars, inputVars, regVars, scoreVars, filterVars,
                   cancelled, phase, active, spawned, gpc, res, callKind,
                   local, calls, sem, gErr, mu, modulesExecuted>>

\* ------------------------------------------------------- specification

Next ==
    \/ Cancel
    \/ Validate
    \/ EnterModulePhase
    \/ Spawn
    \/ Wait
    \/ Check
    \/ RunScoring
    \/ RunReporting
    \/ \E m \in Names : Admit(m)
    \/ \E m \in Names : AdmitCancelled(m)
    \/ \E m \in HostModules : AddLock(m, "host")
    \/ \E m \in HostModules : AddStore(m)
    \/ \E m \in Names : ModuleFails(m)
    \/ \E m \in Names : ModuleSucceeds(m)
    \/ \E m \in Names : AuditStore(m)

Spec == Init /\ [][Next]_vars

\* The same pipeline over a registry that holds modules registered under a
\* category other than the one their phase asks for.
InitCross == PipelineInit({CrossRegistry})

SpecCross == InitCross /\ [][Next]_vars

\* ------------------------------------------------ a run under fair scheduling

\* A registry whose Bleeding Edge phase has more modules than the pool has
\* slots, next to the port scanner.
LiveRegistry ==
    [n \in Names |->
        IF n = "nmap" THEN Module(n, "stable", 1)
        ELSE IF n \in BleedingRegistered THEN Module(n, "bleeding-edge", 1)
        ELSE NoModule]

\* The modules g.Go can start a goroutine for.
LiveModules == {n \in Names : LiveRegistry[n] # NoModule}

InitLive ==
    /\ PipelineInit({LiveRegistry})
    /\ config.BleedingEdge
    /\ config.Threads = 50
    /\ targets # << >>

\* The steps of Execute's own goroutine.
OrchestratorStep ==
    \/ Validate
    \/ EnterModulePhase
    \/ Spawn
    \/ Wait
    \/ Check
    \/ RunScoring
    \/ RunReporting

\* The steps of the goroutine g.Go started for module m.
ModuleStep(m) ==
    \/ Admit(m)
    \/ AdmitCancelled(m)
    \/ (m \in HostModules /\ AddLock(m, "host"))
    \/ (m \in HostModules /\ AddStore(m))
    \/ ModuleFails(m)
    \/ ModuleSucceeds(m)
    \/ AuditStore(m)

\* The Go scheduler runs every goroutine that can run, and every module's
\* run returns; the interrupt may or may not come.
SpecLive ==
    /\ InitLive
    /\ [][Next]_vars
    /\ WF_vars(OrchestratorStep)
    /\ \A m \in LiveModules : WF_vars(ModuleStep(m))

\* --------------------------------- the Scan helpers, called concurrently

\* Independent goroutines, each inside a sequence of Add* calls on one Scan.
InitAdd ==
    /\ registry \in Registries
    /\ config \in {c \in Configs : ~c.BleedingEdge /\ c.Threads = 50}
    /\ targets = <<"example.com">>
    /\ cancelled = FALSE
    /\ pc = "idle"
    /\ phase = 0
    /\ outcome = NoOutcome
    /\ active = << >>
    /\ spawned = 0
    /\ gpc = [u \in Units |-> IF u \in Workers THEN "run" ELSE "idle"]
    /\ res = [m \in Names |-> "none"]
    /\ callKind = [u \in Units |-> "none"]
    /\ local = [u \in Units |-> << >>]
    /\ calls = [u \in Units |-> << >>]
    /\ sem = [p \in 1..LastModulePhase |-> 0]
    /\ gErr = [p \in 1..LastModulePhase |-> "nil"]
    /\ mu = "free"
    /\ hosts = InitialAccumulator("host")
    /\ vulns = InitialAccumulator("vuln")
    /\ patches = InitialAccumulator("patch")
    /\ bleedingEdge = NoBleedingEdge
    /\ modulesExecuted = << >>
    /\ probed = {}
    /\ rejected = {}
    /\ context = EmptyContext
    /\ riskScore = FZero
    /\ summary = ZeroSummary
    /\ fmaBuild = FALSE
    /\ regMu = "free"
    /\ rpc = [r \in Registrars |-> "idle"]
    /\ pending = [r \in Registrars |-> NoModule]
    /\ fatal = FALSE
    /\ DirectIdle

NextAdd ==
    \/ \E w \in Workers, kind \in Kinds : AddLock(w, kind)
    \/ \E w \in Workers : AddStore(w)

SpecAdd == InitAdd /\ [][NextAdd]_vars

\* ------------------------------------------ Register, called concurrently

\* Names the registering goroutines give their modules: the empty name, the
\* name the registry already holds, and names it does not hold.
FreshNames == {"alpha", "beta", "gamma"}
RegNames == {"", "test-module"} \cup FreshNames

Categories == {"stable", "bleeding-edge"}

\* Identity of the module a goroutine registers; 4 is the module that is
\* in the registry before the concurrent calls.
RegistrarId(r) == CASE r = "r1" -> 1 [] r = "r2" -> 2 [] r = "r3" -> 3

\* The registry after Register(mockModule) of TestModuleRegistry.
TestRegistry ==
    [n \in RegNames |->
        IF n = "test-module" THEN Module(n, "stable", 4) ELSE NoModule]

\* GetModule: the module stored under the name and whether there is one.
GetModule(reg, name) ==
    IF name \in DOMAIN reg /\ reg[name] # NoModule
    THEN [module |-> reg[name], exists |-> TRUE]
    ELSE [module |-> NoModule, exists |-> FALSE]

\* Mutant: only the empty name is rejected, a duplicate overwrites.
RegisterRejectsEmptyOnly(reg, name) == name = ""

\* The two Fatalf conditions of Register: the name is empty or the map
\* already has the key.
RegisterRejects(reg, name) == name = "" \/ GetModule(reg, name).exists

\* Mutant: the insertion is missing.
StoreModuleDropped(reg, mod) == reg

\* registry.modules[name] = module
StoreModule(reg, mod) == [reg EXCEPT ![mod.name] = mod]

\* Register, first statement: registry.mu.Lock().
RegisterLock(r) ==
    /\ ~fatal
    /\ rpc[r] = "call"
    /\ CanLock(regMu)
    /\ regMu' = r
    /\ rpc' = [rpc EXCEPT ![r] = "locked"]
    /\ UNCHANGED <<directVars, inputVars, pending, fatal, scoreVars,
                   filterVars, cancelled, execVars, gpc, res, callKind, local,
                   calls, sem, gErr, mu, resultVars, modulesExecuted>>

\* Register under the lock: logrus.Fatalf ends the process (the deferred
\* Unlock never runs) when the name is empty or present; otherwise the
\* module is stored and the deferred Unlock runs.
RegisterBody(r) ==
    /\ ~fatal
    /\ rpc[r] = "locked"
    /\ IF RegisterRejects(registry, pending[r].name)
       THEN /\ fatal' = TRUE
            /\ rpc' = [rpc EXCEPT ![r] = "fatal"]
            /\ UNCHANGED <<registry, regMu>>
       ELSE /\ registry' = StoreModule(registry, pending[r])
            /\ regMu' = "free"
            /\ rpc' = [rpc EXCEPT ![r] = "done"]
            /\ fatal' = fatal
    /\ UNCHANGED <<directVars, config, targets, pending, scoreVars, filterVars,
                   cancelled, execVars, gpc, res, callKind, local, calls, sem,
                   gErr, mu, resultVars, modulesExecuted>>

\* Goroutines about to call Register, each with a module of its own, on a
\* registry that already holds one module.
InitReg ==
    /\ registry = TestRegistry
    /\ config \in {c \in Configs : ~c.BleedingEdge /\ c.Threads = 50}
    /\ targets = <<"example.com">>
    /\ cancelled = FALSE
    /\ pc = "idle"
    /\ phase = 0
    /\ outcome = NoOutcome
    /\ active = << >>
    /\ spawned = 0
    /\ gpc = [u \in Units |-> "idle"]
    /\ res = [m \in Names |-> "none"]
    /\ callKind = [u \in Units |-> "none"]
    /\ local = [u \in Units |-> << >>]
    /\ calls = [u \in Units |-> << >>]
    /\ sem = [p \in 1..LastModulePhase |-> 0]
    /\ gErr = [p \in 1..LastModulePhase |-> "nil"]
    /\ mu = "free"
    /\ hosts = << >>
    /\ vulns = << >>
    /\ patches = << >>
    /\ bleedingEdge = NoBleedingEdge
    /\ modulesExecuted = << >>
    /\ probed = {}
    /\ rejected = {}
    /\ context = EmptyContext
    /\ riskScore = FZero
    /\ summary = ZeroSummary
    /\ fmaBuild = FALSE
    /\ regMu = "free"
    /\ rpc = [r \in Registrars |-> "call"]
    /\ \E nm \in [Registrars -> RegNames], ct \in [Registrars -> Categories] :
         pending = [r \in Registrars |->
                       Module(nm[r], ct[r], RegistrarId(r))]
    /\ fatal = FALSE
    /\ DirectIdle

NextReg ==
    \/ \E r \in Registrars : RegisterLock(r)
    \/ \E r \in Registrars : RegisterBody(r)

SpecReg == InitReg /\ [][NextReg]_vars

\* ----------------------------------------------------------- ListModules

\* Calls of ListModules in one run.
MaxListCalls == 1

\* The strings the registry can hold as keys, in the byte order that
\* sort.Strings uses.
StringOrder == <<"", "alpha", "beta", "gamma", "test-module">>

StringIndex(a) == CHOOSE i \in 1..Len(StringOrder) : StringOrder[i] = a

\* a < b on Go strings.
StringLess(a, b) == StringIndex(a) < StringIndex(b)

\* x put before the first element of the sorted sequence s that is not
\* smaller.
RECURSIVE InsertString(_, _)
InsertString(s, x) ==
    IF s = << >> THEN <<x>>
    ELSE IF StringLess(Head(s), x) THEN <<Head(s)>> \o InsertString(Tail(s), x)
    ELSE <<x>> \o s

\* Mutant: the names stay in the order the map iteration produced.
SortStringsKeepsOrder(s) == s

\* sort.Strings(names).
RECURSIVE SortStrings(_)
SortStrings(s) ==
    IF s = << >> THEN << >>
    ELSE InsertString(SortStrings(Tail(s)), Head(s))

\* The orders in which `for name := range registry.modules` can produce
\* the keys of the map.
IterationOrders(reg) ==
    LET keys == {n \in DOMAIN reg : reg[n] # NoModule}
    IN  {s \in [1..Cardinality(keys) -> keys] :
            \A i, j \in 1..Cardinality(keys) : s[i] = s[j] => i = j}

\* A row of the table: name, category and the module's own columns
\* (version, author, description), which its identity stands for.
Row(m) == [name |-> m.name, category |-> m.category, id |-> m.id]

\* The empty row appended before the bleeding-edge rows.
SeparatorRow == [name |-> "", category |-> "", id |-> 0]

ListedCategories == <<"stable", "bleeding-edge">>

\* ListModules under the read lock, for one iteration order of the map:
\* no row when the registry is empty; else the names are sorted, grouped
\* by Category(), and the groups "stable" and "bleeding-edge" that exist
\* are appended in that order, the second after a separator row.
ListModules(reg, iter) ==
    LET names == SortStrings(iter)
        categories(c) == SelectSeq(names, LAMBDA n : reg[n].category = c)
        rows(c) ==
            IF categories(c) = << >> THEN << >>
            ELSE (IF c = "bleeding-edge" THEN <<SeparatorRow>> ELSE << >>)
                 \o [i \in 1..Len(categories(c)) |-> Row(reg[categories(c)[i]])]
    IN  IF iter = << >> THEN << >>
        ELSE rows(ListedCategories[1]) \o rows(ListedCategories[2])

\* A goroutine calls ListModules: registry.mu.RLock() succeeds when no
\* Register holds the lock, the table is built and the lock released.
ListModulesCall ==
    /\ ~fatal
    /\ ncalls < MaxListCalls
    /\ regMu = "free"
    /\ \E iter \in IterationOrders(registry) :
          ret' = [fn |-> "ListModules", arg |-> iter,
                  val |-> ListModules(registry, iter)]
    /\ ncalls' = ncalls + 1
    /\ UNCHANGED <<loopVars,
                   inputVars, regVars, scoreVars, filterVars, cancelled,
                   execVars, gpc, res, callKind, local, calls, sem, gErr, mu,
                   resultVars, modulesExecuted, sandboxVars, ctxVars>>

\* Goroutines registering modules in any order, and calls of ListModules.
InitList == InitReg

NextList ==
    \/ \E r \in Registrars : RegisterLock(r)
    \/ \E r \in Registrars : RegisterBody(r)
    \/ ListModulesCall

SpecList == InitList /\ [][NextList]_vars

\* ------------------------------------- executeModules, name by name

\* A registry with two modules of the Discovery list and two of the
\* Bleeding Edge list.
FilterRegistry ==
    [n \in Names |->
        IF n \in {"subfinder", "amass"} THEN Module(n, "stable", 1)
        ELSE IF n \in {"llm-fuzzer", "auto-patch"}
        THEN Module(n, "bleeding-edge", 1)
        ELSE NoModule]

\* GetModulesByCategory as a slice: the modules of the category in the
\* order the iteration over registry.modules met them.
GetModulesByCategoryIn(reg, iter, category) ==
    LET keys == SelectSeq(iter, LAMBDA n : reg[n].category = category)
    IN  [i \in 1..Len(keys) |-> reg[keys[i]]]

\* moduleMap of executeModules: the keys it holds.
moduleMap(available) == {available[i].name : i \in 1..Len(available)}

\* Mutant: the loop walks the name list from its end.
NameAtFromEnd(names, i) == names[Len(names) + 1 - i]

\* The i-th name `for _, name := range moduleNames` yields.
NameAt(names, i) == names[i]

\* executeModules up to its filter loop (runBleedingEdgePhase returns nil
\* before it when the phase is not enabled): availableModules and
\* moduleMap are built.
FilterBegin ==
    /\ pc = "enter"
    /\ phase \in 1..LastModulePhase
    /\ IF phase = LastModulePhase /\ BleedingEdgeSkipped(config)
       THEN /\ pc' = "check"
            /\ UNCHANGED <<active, probed, rejected, loopVars>>
       ELSE /\ \E iter \in IterationOrders(registry) :
                  availableModules' =
                     GetModulesByCategoryIn(registry, iter,
                                            PhaseCategory(phase))
            /\ nameIdx' = 0
            /\ prereqLog' = << >>
            /\ active' = << >>
            /\ probed' = {}
            /\ rejected' = {}
            /\ pc' = "filter"
    /\ UNCHANGED <<engineVars, sandboxVars, ctxVars, inputVars, regVars,
                   scoreVars, cancelled, phase, outcome, spawned, gpc, res,
                   callKind, local, calls, sem, gErr, mu, resultVars,
                   modulesExecuted>>

\* One iteration of the filter loop: the next name of the list is looked
\* up in moduleMap; a module found has its Prerequisites() called and is
\* appended to activeModules unless that returned an error.
FilterName ==
    /\ pc = "filter"
    /\ nameIdx < Len(PhaseModules(phase))
    /\ nameIdx' = nameIdx + 1
    /\ LET name == NameAt(PhaseModules(phase), nameIdx + 1) IN
        IF name \in moduleMap(availableModules)
        THEN /\ prereqLog' = Append(prereqLog, name)
             /\ probed' = probed \cup {name}
             /\ \E ok \in IF PrereqMayFail(name) THEN BOOLEAN ELSE {TRUE} :
                   IF ok
                   THEN /\ active' = Append(active, name)
                        /\ rejected' = rejected
                   ELSE /\ active' = active
                        /\ rejected' = rejected \cup {name}
        ELSE UNCHANGED <<prereqLog, probed, active, rejected>>
    /\ UNCHANGED <<engineVars, sandboxVars, ctxVars, inputVars, regVars,
                   scoreVars, cancelled, phase, outcome, spawned, gpc, res,
                   callKind, local, calls, sem, gErr, mu, resultVars,
                   modulesExecuted, availableModules, pc>>

\* The loop is over: nil is returned when no module survived, else the
\* g.Go loop follows.
FilterEnd ==
    /\ pc = "filter"
    /\ nameIdx = Len(PhaseModules(phase))
    /\ pc' = IF Len(active) = 0 THEN "check" ELSE "spawn"
    /\ spawned' = 0
    /\ UNCHANGED <<engineVars, sandboxVars, ctxVars, inputVars, regVars,
                   scoreVars, filterVars, cancelled, phase, outcome, active,
                   gpc, res, callKind, local, calls, sem, gErr, mu,
                   resultVars, modulesExecuted, loopVars>>

InitFilter ==
    /\ PipelineInit({FilterRegistry})
    /\ config.Threads = 50
    /\ targets # << >>

NextFilter ==
    \/ Cancel
    \/ Validate
    \/ FilterBegin
    \/ FilterName
    \/ FilterEnd
    \/ Spawn
    \/ Wait
    \/ Check
    \/ RunScoring
    \/ RunReporting
    \/ \E m \in Names : Admit(m)
    \/ \E m \in Names : AdmitCancelled(m)
    \/ \E m \in HostModules : AddLock(m, "host")
    \/ \E m \in HostModules : AddStore(m)
    \/ \E m \in Names : ModuleFails(m)
    \/ \E m \in Names : ModuleSucceeds(m)
    \/ \E m \in Names : AuditStore(m)

SpecFilter == InitFilter /\ [][NextFilter]_vars

\* ------------------------------------------- the Scoring phase on inputs

Severities == {"critical", "high", "medium", "low", "info", "unknown"}

\* A Vulnerability as a module appends it: the fields the core reads.
Vulnerability(sev, ex, conf) ==
    [Severity |-> sev, Exploitable |-> ex,
     Metadata |-> [llm_confidence |-> conf], RiskScore |-> FZero]

\* Values of Context["supply_chain_drift"]: absent, not a number, and the
\* float64 values 0, 0.5, 0.75, 0.85, 3.25, 50 and -10.
DriftInputs ==
    {NoValue, StringValue, DecValue(0, 1), DecValue(1, 2), DecValue(3, 4),
     DecValue(17, 20), DecValue(13, 4), DecValue(50, 1), DecValue(-10, 1)}

\* Values of Metadata["llm_confidence"]: absent, not a number, and the
\* float64 values 0.5, 0.9 and 1.
ConfInputs ==
    {NoValue, StringValue, DecValue(1, 2), DecValue(9, 10), DecValue(1, 1)}

\* One vulnerability of any severity, exploitability and confidence.
SingleVulns ==
    {<<Vulnerability(sev, ex, conf)>> :
        sev \in Severities, ex \in BOOLEAN, conf \in ConfInputs}

\* Longest vulnerability list given to the Scoring phase.
MaxVulns == 2

\* Vulnerability lists of up to MaxVulns entries without LLM metadata.
VulnLists ==
    UNION {[1..n -> {Vulnerability(sev, ex, NoValue) :
                        sev \in {"critical", "high", "info"},
                        ex \in BOOLEAN}] : n \in 0..MaxVulns}

\* Execute about to call runScoringPhase: the module phases have returned
\* and left a vulnerability list and a drift value.
ScoringInit(vulnLists, drifts) ==
    /\ registry = RealRegistry
    /\ config \in {c \in Configs : ~c.BleedingEdge /\ c.Threads = 50}
    /\ targets = <<"example.com">>
    /\ cancelled = FALSE
    /\ pc = "enter"
    /\ phase = 5
    /\ outcome = NoOutcome
    /\ active = << >>
    /\ spawned = 0
    /\ gpc = [u \in Units |-> "idle"]
    /\ res = [m \in Names |-> "none"]
    /\ callKind = [u \in Units |-> "none"]
    /\ local = [u \in Units |-> << >>]
    /\ calls = [u \in Units |-> << >>]
    /\ sem = [p \in 1..LastModulePhase |-> 0]
    /\ gErr = [p \in 1..LastModulePhase |-> "nil"]
    /\ mu = "free"
    /\ hosts = << >>
    /\ vulns \in vulnLists
    /\ patches = << >>
    /\ bleedingEdge = NoBleedingEdge
    /\ modulesExecuted = << >>
    /\ probed = {}
    /\ rejected = {}
    /\ context \in [ContextKeys -> drifts]
    /\ riskScore = FZero
    /\ summary = ZeroSummary
    /\ fmaBuild \in BOOLEAN
    /\ regMu = "free"
    /\ rpc = [r \in Registrars |-> "idle"]
    /\ pending = [r \in Registrars |-> NoModule]
    /\ fatal = FALSE
    /\ DirectIdle

\* CalculateRiskScore applied to one vulnerability.
InitRisk == ScoringInit(SingleVulns, DriftInputs)

NextRisk == RunScoring

SpecRisk == InitRisk /\ [][NextRisk]_vars

\* The Scoring and Reporting phases on a list of vulnerabilities.
InitScore ==
    ScoringInit(VulnLists, {NoValue, DecValue(50, 1), DecValue(-10, 1)})

NextScore ==
    \/ RunScoring
    \/ RunReporting
    \/ Check

SpecScore == InitScore /\ [][NextScore]_vars

\* --------------------------------------- scores without a numeric drift

\* Values of Metadata["llm_confidence"] inside [0, 1], absent, of another
\* type, and above 1.
BoundedConfInputs ==
    {NoValue, StringValue, DecValue(0, 1), DecValue(1, 2), DecValue(1, 1),
     DecValue(5, 2)}

\* One or two vulnerabilities of the heaviest and of the default weight.
ConfVulnLists ==
    UNION {[1..n -> {Vulnerability(sev, ex, conf) :
                        sev \in {"critical", "unknown"}, ex \in BOOLEAN,
                        conf \in BoundedConfInputs}] : n \in 1..MaxVulns}

\* The Scoring phase on these lists, without a drift value, with one of
\* another type, and with the float64 50.
InitBounded ==
    ScoringInit(ConfVulnLists, {NoValue, StringValue, DecValue(50, 1)})

SpecBounded == InitBounded /\ [][NextScore]_vars

\* ------------------------------------------- a run that reports findings

\* A registry of a build whose vulnerability-assessment modules report
\* findings through scan.AddVulnerability, next to the port scanner.
FindingModules == {"nuclei", "katana"}

FindingRegistry ==
    [n \in Names |->
        IF n \in FindingModules \cup {"nmap"} THEN Module(n, "stable", 1)
        ELSE NoModule]

\* The vulnerabilities such a module hands to AddVulnerability.
Findings ==
    {Vulnerability("critical", TRUE, NoValue),
     Vulnerability("info", FALSE, NoValue)}

\* Mutant: the new entry is put in front of the slice.
AddVulnerabilityPrepends(m) ==
    /\ gpc[m] = "locked"
    /\ callKind[m] = "vuln"
    /\ \E v \in Findings : vulns' = <<v>> \o local[m]
    /\ calls' = [calls EXCEPT ![m] = Append(@, callKind[m])]
    /\ mu' = "free"
    /\ gpc' = [gpc EXCEPT ![m] = "run"]
    /\ callKind' = [callKind EXCEPT ![m] = "none"]
    /\ local' = [local EXCEPT ![m] = << >>]
    /\ UNCHANGED <<directVars, inputVars, regVars, scoreVars, filterVars,
                   cancelled, execVars, res, sem, gErr, hosts, patches,
                   bleedingEdge, modulesExecuted>>

\* AddVulnerability, second half: append(s.Results.Vulnerabilities, vuln)
\* is stored back and the deferred Results.mu.Unlock() runs.
AddVulnerability(m) ==
    /\ gpc[m] = "locked"
    /\ callKind[m] = "vuln"
    /\ \E v \in Findings : vulns' = Append(local[m], v)
    /\ calls' = [calls EXCEPT ![m] = Append(@, callKind[m])]
    /\ mu' = "free"
    /\ gpc' = [gpc EXCEPT ![m] = "run"]
    /\ callKind' = [callKind EXCEPT ![m] = "none"]
    /\ local' = [local EXCEPT ![m] = << >>]
    /\ UNCHANGED <<directVars, inputVars, regVars, scoreVars, filterVars,
                   cancelled, execVars, res, sem, gErr, hosts, patches,
                   bleedingEdge, modulesExecuted>>

InitFindings ==
    /\ PipelineInit({FindingRegistry})
    /\ ~config.BleedingEdge
    /\ config.Threads = 50

NextFindings ==
    \/ Next
    \/ \E m \in FindingModules : AddLock(m, "vuln")
    \/ \E m \in FindingModules : AddVulnerability(m)

SpecFindings == InitFindings /\ [][NextFindings]_vars

\* ------------------------------------------- direct calls to the engine

\* Everything a run of Execute or Register moves, except the cancellation
\* signal, Results, the context and the summary: no run is in progress.
OutsideRun ==
    /\ registry = RealRegistry
    /\ config \in {c \in Configs : ~c.BleedingEdge /\ c.Threads = 50}
    /\ targets = <<"example.com">>
    /\ pc = "idle"
    /\ phase = 0
    /\ outcome = NoOutcome
    /\ active = << >>
    /\ spawned = 0
    /\ gpc = [u \in Units |-> "idle"]
    /\ res = [m \in Names |-> "none"]
    /\ callKind = [u \in Units |-> "none"]
    /\ local = [u \in Units |-> << >>]
    /\ calls = [u \in Units |-> << >>]
    /\ sem = [p \in 1..LastModulePhase |-> 0]
    /\ gErr = [p \in 1..LastModulePhase |-> "nil"]
    /\ mu = "free"
    /\ modulesExecuted = << >>
    /\ probed = {}
    /\ rejected = {}
    /\ regMu = "free"
    /\ rpc = [r \in Registrars |-> "idle"]
    /\ pending = [r \in Registrars |-> NoModule]
    /\ fatal = FALSE

\* The variables of OutsideRun together with the cancellation signal,
\* Results, the context and the summary.
runVars ==
    <<inputVars, regVars, scoreVars, filterVars, cancelled, execVars, gpc,
      res, callKind, local, calls, sem, gErr, mu, resultVars,
      modulesExecuted>>

\* Values found in a vulnerability's RiskScore field before a call: 0,
\* 12.34 and 85, whatever the severity label is.
StoredScores == {FZero, Dec(1234, 100), Dec(85, 1)}

Stored(v, score) == [v EXCEPT !.RiskScore = score]

\* Vulnerability lists whose stored scores are independent of the labels.
StoredVulnLists ==
    UNION {[1..n -> {Stored(Vulnerability(sev, sev = "critical", NoValue), s) :
                        sev \in {"critical", "high", "info"},
                        s \in StoredScores}] : n \in 0..MaxVulns}

\* Direct calls made to the engine in one behaviour.
MaxEngineCalls == 2

InitEngine ==
    /\ OutsideRun
    /\ cancelled = FALSE
    /\ hosts = << >>
    /\ vulns \in StoredVulnLists
    /\ patches = << >>
    /\ bleedingEdge = NoBleedingEdge
    /\ context \in [ContextKeys -> {NoValue, DecValue(50, 1)}]
    /\ riskScore = FZero
    /\ summary = ZeroSummary
    /\ fmaBuild \in BOOLEAN
    /\ DirectIdle

\* Mutant: the call stores the score it computed into the vulnerability.
CallRiskScoreStores(i) ==
    /\ ncalls < MaxEngineCalls
    /\ i \in 1..Len(vulns)
    /\ ret' = [fn |-> "CalculateRiskScore", arg |-> <<i>>,
               val |-> CalculateRiskScore(vulns[i], context, fmaBuild)]
    /\ ncalls' = ncalls + 1
    /\ vulns' = [vulns EXCEPT ![i].RiskScore = ret'.val]
    /\ UNCHANGED <<loopVars,
                   inputVars, regVars, scoreVars, filterVars, cancelled,
                   execVars, gpc, res, callKind, local, calls, sem, gErr, mu,
                   hosts, patches, bleedingEdge, modulesExecuted, sandboxVars, ctxVars>>

\* e.CalculateRiskScore(&vulns[i], scan): the function assigns to locals
\* only and returns the score.
CallRiskScore(i) ==
    /\ ncalls < MaxEngineCalls
    /\ i \in 1..Len(vulns)
    /\ ret' = [fn |-> "CalculateRiskScore", arg |-> <<i>>,
               val |-> CalculateRiskScore(vulns[i], context, fmaBuild)]
    /\ ncalls' = ncalls + 1
    /\ UNCHANGED <<loopVars,
                   runVars, sandboxVars, ctxVars>>

\* e.CalculateOverallRiskScore(vulns): the function ranges over copies of
\* the elements, assigns to locals only and returns the score.
CallOverallRiskScore ==
    /\ ncalls < MaxEngineCalls
    /\ ret' = [fn |-> "CalculateOverallRiskScore", arg |-> << >>,
               val |-> CalculateOverallRiskScore(vulns)]
    /\ ncalls' = ncalls + 1
    /\ UNCHANGED <<loopVars,
                   runVars, sandboxVars, ctxVars>>

NextEngine ==
    \/ \E i \in 1..MaxVulns : CallRiskScore(i)
    \/ CallOverallRiskScore

SpecEngine == InitEngine /\ [][NextEngine]_vars

\* The Scoring phase of a run whose modules left scores of their own in the
\* vulnerabilities they appended; the summary is as NewOrchestrator made it.
InitStored == ScoringInit(StoredVulnLists, {NoValue, DecValue(50, 1)})

NextStored == RunScoring

SpecStored == InitStored /\ [][NextStored]_vars

\* ------------------------------------------------------ the summary pass

\* A HostResult with its Ports and Services.
Host(ports, services) ==
    [by |-> "nmap", n |-> 1, Ports |-> ports, Services |-> services]

Port(state) == [State |-> state]

\* Hosts without ports and services, with an open port, with an open and a
\* closed port and a service, and with a service only.
SummaryHosts ==
    {Host(<< >>, << >>),
     Host(<<Port("open")>>, << >>),
     Host(<<Port("open"), Port("closed")>>, <<"http">>),
     Host(<< >>, <<"ssh">>)}

\* Longest host list given to the summary pass.
MaxHosts == 2

HostLists == UNION {[1..n -> SummaryHosts] : n \in 0..MaxHosts}

SummaryVulnLists ==
    UNION {[1..n -> {Stored(Vulnerability("critical", TRUE, NoValue),
                            Dec(85, 1)),
                     Vulnerability("high", FALSE, NoValue),
                     Vulnerability("medium", FALSE, NoValue),
                     Stored(Vulnerability("low", TRUE, NoValue), Dec(85, 1)),
                     Vulnerability("info", FALSE, NoValue)}] :
              n \in 0..MaxVulns}

\* Counters as NewOrchestrator leaves them, and counters an earlier pass or
\* an earlier run wrote: all 7, or every one 0 except HighRiskVulns.
StaleSummaries ==
    {ZeroSummary,
     [f \in DOMAIN ZeroSummary |-> 7],
     [ZeroSummary EXCEPT !.HighRiskVulns = 1]}

\* Passes made in one behaviour.
MaxSummaryCalls == 2

InitSummary ==
    /\ OutsideRun
    /\ cancelled = FALSE
    /\ hosts \in HostLists
    /\ vulns \in SummaryVulnLists
    /\ patches = << >>
    /\ bleedingEdge = NoBleedingEdge
    /\ context = EmptyContext
    /\ riskScore = FZero
    /\ summary \in StaleSummaries
    /\ fmaBuild = FALSE
    /\ DirectIdle

\* o.updateScanSummary(), on its own.
CallUpdateScanSummary ==
    /\ ncalls < MaxSummaryCalls
    /\ summary' = updateScanSummary(summary, hosts, vulns)
    /\ ret' = [fn |-> "updateScanSummary", arg |-> << >>, val |-> "none"]
    /\ ncalls' = ncalls + 1
    /\ UNCHANGED <<loopVars,
                   inputVars, regVars, filterVars, context, riskScore,
                   fmaBuild, cancelled, execVars, gpc, res, callKind, local,
                   calls, sem, gErr, mu, resultVars, modulesExecuted,
                   sandboxVars, ctxVars>>

NextSummary == CallUpdateScanSummary

SpecSummary == InitSummary /\ [][NextSummary]_vars

\* --------------------------------------------------- the isolation layer

\* Modules handed to the layer: two that add a host and one that adds a
\* vulnerability, each returning nil or an error after its append.
RunModules ==
    [name : {"subfinder", "nmap"}, kind : {"host"}, fails : BOOLEAN]
       \cup [name : {"nuclei"}, kind : {"vuln"}, fails : BOOLEAN]

\* The Scan as a module sees it, with the record of the Run invocations.
ScanView == [hosts |-> hosts, vulns |-> vulns, log |-> runLog]

\* module.Run(ctx, scan): the invocation is recorded; with ctx cancelled the
\* module returns the context's error and adds nothing, otherwise it
\* appends its entry and returns its own result.
ModuleRun(mod, sig, scan) ==
    LET logged == [scan EXCEPT
                     !.log = Append(@, [module |-> mod.name, sig |-> sig])]
    IN IF sig
       THEN [scan |-> logged, err |-> "context canceled"]
       ELSE [scan |->
                IF mod.kind = "host"
                THEN [logged EXCEPT
                        !.hosts = Append(@, Entry(mod.name, Len(@) + 1))]
                ELSE [logged EXCEPT
                        !.vulns = Append(@, Entry(mod.name, Len(@) + 1))],
             err |-> IF mod.fails THEN "module error" ELSE "nil"]

\* Mutant: an inactive layer returns nil without running the module.
ExecuteModuleSkipsInactive(isActive, mod, sig, scan) ==
    IF ~isActive
    THEN [scan |-> scan, err |-> "nil"]
    ELSE ModuleRun(mod, sig, scan)

\* Manager.ExecuteModule: module.Run(ctx, scan) is returned when the layer
\* is inactive, and (after a log line) when it is active as well.
ExecuteModule(isActive, mod, sig, scan) ==
    IF ~isActive
    THEN ModuleRun(mod, sig, scan)
    ELSE ModuleRun(mod, sig, scan)

\* Calls made in one behaviour.
MaxSandboxCalls == 2

\* After NewOrchestrator, with the cancellation signal raised or not.
InitSandbox ==
    /\ OutsideRun
    /\ cancelled \in BOOLEAN
    /\ hosts = << >>
    /\ vulns = << >>
    /\ patches = << >>
    /\ bleedingEdge = NoBleedingEdge
    /\ context = EmptyContext
    /\ riskScore = FZero
    /\ summary = ZeroSummary
    /\ fmaBuild = FALSE
    /\ DirectIdle

\* Manager.Initialize as root with unshare available: the namespace process
\* starts and the layer becomes active.  In every other case Initialize
\* leaves the layer inactive.
SandboxInitialize ==
    /\ ret = NoCall
    /\ ~sandboxActive
    /\ sandboxActive' = TRUE
    /\ UNCHANGED <<loopVars,
                   runVars, engineVars, runLog, ctxVars>>

\* o.sandbox.ExecuteModule(ctx, mod, o.scan).
SandboxCall(mod) ==
    /\ ncalls < MaxSandboxCalls
    /\ LET r == ExecuteModule(sandboxActive, mod, cancelled, ScanView)
       IN /\ hosts' = r.scan.hosts
          /\ vulns' = r.scan.vulns
          /\ runLog' = r.scan.log
          /\ ret' = [fn |-> "ExecuteModule", arg |-> <<mod>>,
                     val |-> r.err]
    /\ ncalls' = ncalls + 1
    /\ UNCHANGED <<loopVars,
                   inputVars, regVars, scoreVars, filterVars, cancelled,
                   execVars, gpc, res, callKind, local, calls, sem, gErr, mu,
                   patches, bleedingEdge, modulesExecuted, sandboxActive, ctxVars>>

\* mod.Run(ctx, o.scan), called directly.
DirectCall(mod) ==
    /\ ncalls < MaxSandboxCalls
    /\ LET r == ModuleRun(mod, cancelled, ScanView)
       IN /\ hosts' = r.scan.hosts
          /\ vulns' = r.scan.vulns
          /\ runLog' = r.scan.log
          /\ ret' = [fn |-> "Run", arg |-> <<mod>>, val |-> r.err]
    /\ ncalls' = ncalls + 1
    /\ UNCHANGED <<loopVars,
                   inputVars, regVars, scoreVars, filterVars, cancelled,
                   execVars, gpc, res, callKind, local, calls, sem, gErr, mu,
                   patches, bleedingEdge, modulesExecuted, sandboxActive, ctxVars>>

NextSandbox ==
    \/ SandboxInitialize
    \/ \E mod \in RunModules : SandboxCall(mod)
    \/ \E mod \in RunModules : DirectCall(mod)

SpecSandbox == InitSandbox /\ [][NextSandbox]_vars

\* ------------------------------------------ the context, used concurrently

\* Values stored under a key: a string and the float64 0.5.
CtxValues == {StringValue, DecValue(1, 2)}

\* The calls a goroutine makes: SetContext(key, value) or GetContext(key).
CtxOps ==
    [op : {"set"}, key : CtxKeys, value : CtxValues]
       \cup [op : {"get"}, key : CtxKeys, value : {NoValue}]

\* Goroutines about to call the context helpers of a Scan whose Context is
\* the empty map.
InitContext ==
    /\ OutsideRun
    /\ cancelled = FALSE
    /\ hosts = << >>
    /\ vulns = << >>
    /\ patches = << >>
    /\ bleedingEdge = NoBleedingEdge
    /\ context = [k \in CtxKeys |-> NoValue]
    /\ riskScore = FZero
    /\ summary = ZeroSummary
    /\ fmaBuild = FALSE
    /\ EngineIdle
    /\ SandboxIdle
    /\ LoopIdle
    /\ scanMu = FreeRW
    /\ cpc = [c \in CtxCallers |-> "call"]
    /\ cop \in [CtxCallers -> CtxOps]
    /\ cres = [c \in CtxCallers |-> NoValue]
    /\ settled = [k \in CtxKeys |-> NoValue]

\* s.mu.RLock() can proceed: no writer holds the mutex.
CanRLock(rw) == rw.writer = "none"

\* Mutant: Lock() does not wait for the readers to leave.
CanWLockIgnoresReaders(rw) == rw.writer = "none"

\* s.mu.Lock() can proceed: neither a writer nor a reader holds the mutex.
CanWLock(rw) == rw.writer = "none" /\ rw.readers = {}

\* A goroutine is inside the assignment s.Context[key] = value.
MapBeingWritten(except) ==
    \E d \in CtxCallers \ {except} : cpc[d] = "writing"

\* Mutant: SetContext also takes the mutex of the Results.
SetLockTakesResultsGuard(c) ==
    /\ cpc[c] = "call"
    /\ cop[c].op = "set"
    /\ CanWLock(scanMu)
    /\ CanLock(mu)
    /\ scanMu' = [scanMu EXCEPT !.writer = c]
    /\ mu' = c
    /\ cpc' = [cpc EXCEPT ![c] = "locked"]
    /\ UNCHANGED <<loopVars,
                   inputVars, regVars, scoreVars, filterVars, cancelled,
                   execVars, gpc, res, callKind, local, calls, sem, gErr,
                   resultVars, modulesExecuted, engineVars, sandboxVars, cop,
                   cres, settled>>

\* SetContext, first statement: s.mu.Lock().
SetLock(c) ==
    /\ cpc[c] = "call"
    /\ cop[c].op = "set"
    /\ CanWLock(scanMu)
    /\ scanMu' = [scanMu EXCEPT !.writer = c]
    /\ cpc' = [cpc EXCEPT ![c] = "locked"]
    /\ UNCHANGED <<loopVars,
                   runVars, engineVars, sandboxVars, cop, cres, settled>>

\* SetContext: the map is not nil; the assignment s.Context[key] = value
\* begins.
SetWriteBegin(c) ==
    /\ cpc[c] = "locked"
    /\ cpc' = [cpc EXCEPT ![c] = "writing"]
    /\ UNCHANGED <<loopVars,
                   runVars, engineVars, sandboxVars, scanMu, cop, cres,
                   settled>>

\* SetContext: the assignment completes, the deferred Unlock runs and the
\* call returns.  An assignment that overlaps another goroutine's
\* assignment is a data race on the map: it can leave any content.
SetStore(c) ==
    /\ cpc[c] = "writing"
    /\ IF MapBeingWritten(c)
       THEN context' \in [CtxKeys -> CtxValues \cup {NoValue}]
       ELSE context' = [context EXCEPT ![cop[c].key] = cop[c].value]
    /\ scanMu' = [scanMu EXCEPT !.writer = "none"]
    /\ cpc' = [cpc EXCEPT ![c] = "done"]
    /\ settled' = [settled EXCEPT ![cop[c].key] = cop[c].value]
    /\ UNCHANGED <<loopVars,
                   inputVars, regVars, riskScore, summary, fmaBuild,
                   filterVars, cancelled, execVars, gpc, res, callKind, local,
                   calls, sem, gErr, mu, resultVars, modulesExecuted,
                   engineVars, sandboxVars, cop, cres>>

\* GetContext, first statement: s.mu.RLock().
GetRLock(c) ==
    /\ cpc[c] = "call"
    /\ cop[c].op = "get"
    /\ CanRLock(scanMu)
    /\ scanMu' = [scanMu EXCEPT !.readers = @ \cup {c}]
    /\ cpc' = [cpc EXCEPT ![c] = "rlocked"]
    /\ UNCHANGED <<loopVars,
                   runVars, engineVars, sandboxVars, cop, cres, settled>>

\* GetContext: val, exists := s.Context[key], the deferred RUnlock runs and
\* the call returns.  A read that overlaps an assignment is a data race on
\* the map: it can return anything.
GetRead(c) ==
    /\ cpc[c] = "rlocked"
    /\ \E v \in (IF MapBeingWritten(c)
                 THEN CtxValues \cup {NoValue}
                 ELSE {context[cop[c].key]}) :
          cres' = [cres EXCEPT ![c] = v]
    /\ scanMu' = [scanMu EXCEPT !.readers = @ \ {c}]
    /\ cpc' = [cpc EXCEPT ![c] = "done"]
    /\ UNCHANGED <<loopVars,
                   runVars, engineVars, sandboxVars, cop, settled>>

NextContext ==
    \/ \E c \in CtxCallers : SetLock(c)
    \/ \E c \in CtxCallers : SetWriteBegin(c)
    \/ \E c \in CtxCallers : SetStore(c)
    \/ \E c \in CtxCallers : GetRLock(c)
    \/ \E c \in CtxCallers : GetRead(c)

SpecContext == InitContext /\ [][NextContext]_vars

\* ------------------------------- Results helpers and context helpers mixed

\* SetBleedingEdgeResult, first statement: s.Results.mu.Lock().
BleedLock(w) ==
    /\ gpc[w] = "run"
    /\ Len(calls[w]) < MaxCalls
    /\ CanLock(mu)
    /\ mu' = w
    /\ gpc' = [gpc EXCEPT ![w] = "belocked"]
    /\ callKind' = [callKind EXCEPT ![w] = "bleeding"]
    /\ UNCHANGED <<directVars, inputVars, regVars, scoreVars, filterVars,
                   cancelled, execVars, res, local, calls, sem, gErr,
                   resultVars, modulesExecuted>>

\* SetBleedingEdgeResult: the map exists (or is made), the result is stored
\* under the module id and the deferred Unlock runs.
BleedStore(w) ==
    /\ gpc[w] = "belocked"
    /\ \E id \in BleedingIds :
          bleedingEdge' = [bleedingEdge EXCEPT ![id] = w]
    /\ calls' = [calls EXCEPT ![w] = Append(@, callKind[w])]
    /\ mu' = "free"
    /\ gpc' = [gpc EXCEPT ![w] = "run"]
    /\ callKind' = [callKind EXCEPT ![w] = "none"]
    /\ UNCHANGED <<directVars, inputVars, regVars, scoreVars, filterVars,
                   cancelled, execVars, res, local, sem, gErr, hosts, vulns,
                   patches, modulesExecuted>>

\* The goroutines that call the context helpers next to the Results
\* helpers, and the calls they make.
GuardCallers == {"g1", "g2"}

GuardOps ==
    {[op |-> "set", key |-> "supply_chain_drift", value |-> DecValue(1, 2)],
     [op |-> "get", key |-> "supply_chain_drift", value |-> NoValue]}

\* A goroutine calls SetContext or GetContext.
CtxCall(c) ==
    /\ cpc[c] = "idle"
    /\ \E o \in GuardOps : cop' = [cop EXCEPT ![c] = o]
    /\ cpc' = [cpc EXCEPT ![c] = "call"]
    /\ UNCHANGED <<loopVars,
                   runVars, engineVars, sandboxVars, scanMu, cres, settled>>

\* Goroutines inside Results helpers and goroutines calling the context
\* helpers, on one Scan.
InitGuards == InitAdd

NextGuards ==
    \/ \E w \in Workers, kind \in Kinds : AddLock(w, kind)
    \/ \E w \in Workers : AddStore(w)
    \/ \E w \in Workers : BleedLock(w)
    \/ \E w \in Workers : BleedStore(w)
    \/ \E c \in GuardCallers : CtxCall(c)
    \/ \E c \in GuardCallers : SetLock(c)
    \/ \E c \in GuardCallers : SetWriteBegin(c)
    \/ \E c \in GuardCallers : SetStore(c)
    \/ \E c \in GuardCallers : GetRLock(c)
    \/ \E c \in GuardCallers : GetRead(c)

SpecGuards == InitGuards /\ [][NextGuards]_vars

\* ------------------------------------------------------------ properties

\* Number of positions of s that hold e.
Count(s, e) == Cardinality({i \in 1..Len(s) : s[i] = e})

IsPrefix(s, t) == Len(s) <= Len(t) /\ SubSeq(t, 1, Len(s)) = s

\* Modules that are inside their run operation.
InRun == {m \in Names : gpc[m] \in {"run", "locked"}}

\* C1: in every reachable state at most 3 (the pool's capacity) modules are
\* inside their run operation, whatever the number of surviving modules and
\* whatever config.Threads and config.RateLimit are.
AtMostThreeRunning == Cardinality(InRun) <= 3

\* C1 witness: three modules run while a fourth waits for admission, under a
\* thread configuration below the pool's capacity.
PoolSaturated ==
    /\ Cardinality(InRun) = 3
    /\ \E m \in Names : gpc[m] = "select"
    /\ config.Threads = 1

\* C2: the phase index only ever advances by one, from the state in which
\* the phase in progress has returned nil (or from target validation into
\* Discovery), and every goroutine that has not returned belongs to the
\* phase in progress: phases run in the fixed order and never overlap.
PhasesSequential ==
    [][/\ phase' # phase =>
            /\ phase' = phase + 1
            /\ pc = IF phase = 0 THEN "validate" ELSE "check"
            /\ outcome.kind = "running"
       /\ \A m \in Names :
            gpc'[m] \notin {"idle", "done"} => PhaseOf(m) = phase']_vars

\* C2 witness: the run has entered Reporting after modules of three earlier
\* phases were executed.
ReachedReporting ==
    /\ phase = 6
    /\ pc = "enter"
    /\ {"subfinder", "nmap", "nuclei"} \subseteq Range(modulesExecuted)

\* The modules of the errgroup in progress, by what their goroutine did.
ActiveWith(r) == {m \in Range(active) : res[m] = r}

\* C3: a module whose run returned an error is never in the audit trail and
\* never makes its phase fail: without cancellation no module phase fails,
\* and once the goroutines of a phase with exactly one succeeding module
\* and at least one failing module have all returned, the group has no
\* error and the trail holds the succeeding module's name.
ModuleFailureIsolated ==
    /\ \A m \in Names : res[m] = "err" => m \notin Range(modulesExecuted)
    /\ (outcome.kind = "failed" /\ outcome.phase \in 1..4) => cancelled
    /\ (/\ pc \in {"wait", "check"}
        /\ ~cancelled
        /\ \A m \in Range(active) : gpc[m] = "done"
        /\ Cardinality(ActiveWith("ok")) = 1
        /\ ActiveWith("err") # {})
       => /\ gErr[phase] = "nil"
          /\ ActiveWith("ok") \subseteq Range(modulesExecuted)

\* C3 witness: Scanning has returned nil after nmap failed and httpx
\* succeeded, with no cancellation.
OneFailedOneSucceeded ==
    /\ pc = "check"
    /\ phase = 2
    /\ ~cancelled
    /\ res["nmap"] = "err"
    /\ res["httpx"] = "ok"
    /\ "httpx" \in Range(modulesExecuted)

\* C4: after a module phase the audit trail holds the name of every module
\* of the phase that succeeded, exactly once.
AuditTrailComplete ==
    (pc = "check" /\ phase \in 1..4)
        => \A m \in ActiveWith("ok") : Count(modulesExecuted, m) = 1

\* The completed Add* calls of a kind, as (unit, call index) pairs.
CompletedCalls(kind) ==
    {c \in Units \X (1..(MaxCalls + 1)) :
        c[2] <= Len(calls[c[1]]) /\ calls[c[1]][c[2]] = kind}

\* C5: under any interleaving of concurrent AddHost, AddVulnerability and
\* AddPatch calls, each accumulator keeps its initial entries, its length
\* is its initial length plus the number of completed calls on it, and the
\* entry of every completed call is in it exactly once.
AppendsAllKept ==
    \A kind \in Kinds :
        /\ IsPrefix(InitialAccumulator(kind), Accumulator(kind))
        /\ Len(Accumulator(kind)) =
              Len(InitialAccumulator(kind)) + Cardinality(CompletedCalls(kind))
        /\ \A c \in CompletedCalls(kind) :
              Count(Accumulator(kind), Entry(c[1], c[2])) = 1

\* C5 witness: three goroutines have each completed a call on the same
\* accumulator.
ThreeConcurrentAppends ==
    /\ \A w \in Workers : calls[w] = <<"vuln">>
    /\ Len(vulns) = 3

\* C6: once the cancellation signal is raised while a phase is in progress,
\* the phase index never changes again: no later phase is started.
NoPhaseAfterCancel ==
    [][(cancelled /\ phase >= 1) => phase' = phase]_vars

\* C6 witness: the signal was raised during Scanning, whose modules ran to
\* the end, and the run stopped at the boundary check after it.
CancelledAtBoundary ==
    /\ outcome.kind = "cancelled"
    /\ outcome.phase = 2
    /\ ActiveWith("ok") # {}

\* C7: a run that ends because of the cancellation signal ends as
\* "cancelled", never as the failure of a phase.
CancelNeverPhaseFailure ==
    outcome.kind = "failed" => outcome.cause # "context canceled"

\* C8: once the cancellation signal is raised, no module waiting at the
\* admission select is admitted.
NoAdmissionAfterCancel ==
    [][\A m \in Names :
          (cancelled /\ gpc[m] = "select") => gpc'[m] # "run"]_vars

\* C9 as stated: after the signal the phase's wait can return although
\* module executions are outstanding, and nothing is appended to the
\* Shared Results or the audit trail any more.
CancelAbandonsModules ==
    [][cancelled =>
          /\ (pc = "wait" => ENABLED Wait)
          /\ UNCHANGED <<hosts, vulns, patches, modulesExecuted>>]_vars

\* C9 amended: after the signal the phase's wait returns only when every
\* module execution it started has returned, what those executions append
\* to the Shared Results is kept, and a module whose run succeeds is still
\* written to the audit trail.
CancelWaitsAndKeeps ==
    [][cancelled =>
          /\ (pc = "wait" /\ pc' # "wait")
                => \A m \in Range(active) : gpc[m] = "done"
          /\ IsPrefix(hosts, hosts')
          /\ IsPrefix(vulns, vulns')
          /\ IsPrefix(patches, patches')
          /\ \A m \in Names :
                (gpc[m] = "locked" /\ gpc'[m] = "run")
                    => hosts' = Append(hosts, Entry(m, Len(calls[m]) + 1))
          /\ \A m \in Names :
                (gpc[m] = "audit" /\ gpc'[m] = "done")
                    => /\ modulesExecuted' # << >>
                       /\ modulesExecuted'[Len(modulesExecuted')] = m]_vars

\* C9 witness: the signal is raised, Execute waits in g.Wait(), one module
\* is inside AddHost and the trail already has a name.
AppendingAfterCancel ==
    /\ cancelled
    /\ pc = "wait"
    /\ \E m \in Names : gpc[m] = "locked"

\* C10: whenever Execute is not inside g.Wait() of a module phase (so in
\* particular during Scoring and Reporting, and after a module phase has
\* returned, cancelled or not), no goroutine of a module is still running
\* and nobody holds the results' mutex.
NoModuleOutsidePhase ==
    (pc \in {"enter", "check", "done"} \/ phase >= 5)
        => /\ \A m \in Names : gpc[m] \in {"idle", "done"}
           /\ mu = "free"

\* C10 witness: Scoring is in progress after modules added hosts and
\* executed.
ScoringAfterModules ==
    /\ phase = 5
    /\ pc = "enter"
    /\ Len(hosts) = 2
    /\ Len(modulesExecuted) >= 3

\* C11: while the Bleeding Edge phase is the phase in progress and the
\* configuration does not enable bleeding-edge, no bleeding-edge module has
\* had its Prerequisites() called or its goroutine started, no step changes
\* the Shared Results, the context or the audit trail, and the phase
\* function's only step is the return of nil that leads to the boundary
\* check.
SkippedBleedingEdgeIsNoOp ==
    [][(phase' = 4 /\ ~config.BleedingEdge) =>
          /\ probed' = {}
          /\ \A m \in Range(bleedingModules) :
                gpc'[m] = "idle" /\ res'[m] = "none"
          /\ UNCHANGED <<hosts, vulns, patches, context, modulesExecuted>>
          /\ (pc = "enter" /\ pc' # "enter")
                => (pc' = "check" /\ outcome' = outcome)]_vars

\* C11 witness: the disabled Bleeding Edge phase has returned after earlier
\* phases added a host and executed modules.
BleedingEdgeSkippedAfterWork ==
    /\ phase = 4
    /\ pc = "check"
    /\ ~config.BleedingEdge
    /\ Len(hosts) >= 1
    /\ Len(modulesExecuted) >= 2

\* C12: a module whose Prerequisites() returned an error has no goroutine
\* in that phase (its run is never invoked), and when every module the
\* phase resolved is rejected, in particular the only one, executeModules
\* returns nil in the same step, leaving the Shared Results and the audit
\* trail as they were.
PrereqFailureExcludes ==
    [][/\ \A m \in rejected' : gpc'[m] = "idle" /\ res'[m] = "none"
       /\ (pc = "enter" /\ probed' # {} /\ rejected' = probed')
             => /\ pc' = "check"
                /\ outcome' = outcome
                /\ UNCHANGED <<hosts, vulns, patches, modulesExecuted>>]_vars

\* C12 witness: in the Vulnerability Assessment phase the only resolved
\* module, nuclei, failed its prerequisites and the phase returned nil;
\* in Scanning one module had been rejected and the other executed.
SoleModuleRejected ==
    /\ phase = 3
    /\ pc = "check"
    /\ probed = {"nuclei"}
    /\ rejected = {"nuclei"}
    /\ outcome.kind = "running"
    /\ "httpx" \in Range(modulesExecuted)
    /\ "nmap" \notin Range(modulesExecuted)

\* The names of a phase's list that the registry does not hold under the
\* phase's category.
NotInCategory ==
    {m \in Names : \/ registry[m] = NoModule
                   \/ registry[m].category # PhaseCategory(PhaseOf(m))}

\* C13: a listed name that is unregistered, or registered under another
\* category than the phase's, never has its Prerequisites() called or a
\* goroutine started, and a module phase that leaves the filter with no
\* module returns nil.
UnresolvedNamesDropped ==
    [][/\ \A m \in NotInCategory :
            m \notin probed' /\ gpc'[m] = "idle" /\ res'[m] = "none"
       /\ (pc = "enter" /\ pc' # "enter" /\ phase \in 1..4
                /\ Len(active') = 0)
             => (pc' = "check" /\ outcome' = outcome)]_vars

\* C13 witness: the enabled Bleeding Edge phase returned nil with nothing
\* resolved (llm-fuzzer is registered as stable), after Discovery ran
\* subfinder and dropped amass (registered as bleeding-edge).
CrossCategoryDropped ==
    /\ phase = 4
    /\ pc = "check"
    /\ config.BleedingEdge
    /\ registry["llm-fuzzer"].category = "stable"
    /\ registry["amass"].category = "bleeding-edge"
    /\ modulesExecuted = <<"subfinder">>

\* C14: a Register call whose module has the empty name, or a name the
\* registry already holds, ends in the fatal outcome and leaves the map as
\* it was, so that lookup of the name still returns the module registered
\* before; and after the fatal outcome the map never changes.
BadRegistrationIsFatal ==
    [][/\ \A r \in Registrars :
            (/\ rpc[r] = "locked"
             /\ rpc'[r] # "locked"
             /\ \/ pending[r].name = ""
                \/ registry[pending[r].name] # NoModule)
            => /\ fatal'
               /\ rpc'[r] = "fatal"
               /\ registry' = registry
               /\ GetModule(registry', pending[r].name) =
                     GetModule(registry, pending[r].name)
       /\ fatal => registry' = registry]_vars

\* C14 witness: a goroutine's registration of a second "test-module" ended
\* fatally after another goroutine had registered a fresh name, and lookup
\* still returns the first "test-module".
DuplicateWasFatal ==
    /\ fatal
    /\ \E r \in Registrars :
          /\ rpc[r] = "fatal"
          /\ pending[r].name = "test-module"
          /\ pending[r].category = "bleeding-edge"
    /\ \E r \in Registrars : rpc[r] = "done"
    /\ GetModule(registry, "test-module").module.id = 4

\* The goroutines register modules with pairwise distinct, non-empty names
\* that the registry does not hold.
DistinctFreshNames ==
    /\ \A r \in Registrars : pending[r].name \in FreshNames
    /\ \A r1, r2 \in Registrars :
          r1 # r2 => pending[r1].name # pending[r2].name

\* C15: when modules with distinct non-empty new names are registered
\* concurrently, no interleaving reaches the fatal outcome, and once a
\* registration has returned GetModule finds that very module under its
\* name and GetModulesByCategory holds it under its own category and under
\* no other.
DistinctRegistrationsSucceed ==
    DistinctFreshNames =>
        /\ ~fatal
        /\ \A r \in Registrars :
              rpc[r] = "done" =>
                 /\ GetModule(registry, pending[r].name) =
                       [module |-> pending[r], exists |-> TRUE]
                 /\ \A c \in Categories :
                       pending[r] \in GetModulesByCategory(registry, c)
                          <=> c = pending[r].category

\* C15 witness: three registrations with distinct fresh names, of both
\* categories, have all returned.
AllThreeRegistered ==
    /\ DistinctFreshNames
    /\ \A r \in Registrars : rpc[r] = "done"
    /\ \E r1, r2 \in Registrars :
          pending[r1].category # pending[r2].category

\* The Scoring phase has just returned.
Scored == phase = 5 /\ pc = "check"

\* A score in hundredths: the integer k with k/100 nearest to it.
Hundredths(x) == FToInt(MathRound(FMul(x, Hundred)))

\* The decimal the drift and the confidence contribute to the formula of
\* the specification: the drift is 0 when the context holds no number, and
\* an absent confidence acts as confidence 1 (factor 0.8 + 0.2 = 1.0).
DriftDec(ctx) ==
    IF ctx["supply_chain_drift"].kind = "float64"
    THEN ctx["supply_chain_drift"]
    ELSE DecValue(0, 1)

ConfDec(v) ==
    IF v.Metadata["llm_confidence"].kind = "float64"
    THEN v.Metadata["llm_confidence"]
    ELSE DecValue(1, 1)

\* Ten times the base of the specification's severity table.
BaseTenths(sev) ==
    CASE sev = "critical" -> 100
      [] sev = "high" -> 75
      [] sev = "medium" -> 50
      [] sev = "low" -> 25
      [] OTHER -> 10

\* The exact rational 100 * base * exploitCoeff * (1 + drift * 0.2) *
\* (0.8 + confidence * 0.2) as numerator and denominator.
ExactNum(v, ctx) ==
    BaseTenths(v.Severity) * (IF v.Exploitable THEN 3 ELSE 2)
       * (5 * DriftDec(ctx).den + DriftDec(ctx).num)
       * (4 * ConfDec(v).den + ConfDec(v).num)

ExactDen(v, ctx) == 5 * DriftDec(ctx).den * ConfDec(v).den

\* The numerator after min(score, 100).
CappedNum(v, ctx) ==
    IF ExactNum(v, ctx) > 10000 * ExactDen(v, ctx)
    THEN 10000 * ExactDen(v, ctx)
    ELSE ExactNum(v, ctx)

\* k hundredths is a nearest two-decimal value of num/den hundredths.
NearestHundredth(k, num, den) ==
    /\ 2 * num - den <= 2 * k * den
    /\ 2 * k * den <= 2 * num + den

\* C16: the score CalculateRiskScore returns is a two-decimal value
\* nearest to min(base * exploitCoeff * driftFactor * llmConfidence, 100)
\* computed exactly with the weights of the specification, and the score
\* of a critical, exploitable vulnerability with no drift and no LLM
\* metadata is 15.0.
RiskScoreFollowsFormula ==
    Scored =>
        \A i \in 1..Len(vulns) :
            /\ vulns[i].RiskScore = Dec(Hundredths(vulns[i].RiskScore), 100)
            /\ NearestHundredth(Hundredths(vulns[i].RiskScore),
                                CappedNum(vulns[i], context),
                                ExactDen(vulns[i], context))
            /\ (/\ vulns[i].Severity = "critical"
                /\ vulns[i].Exploitable
                /\ context["supply_chain_drift"].kind = "absent"
                /\ vulns[i].Metadata["llm_confidence"].kind = "absent")
               => vulns[i].RiskScore = Dec(15, 1)

\* C16 witness: a critical, exploitable vulnerability scored 15.0 with an
\* empty context and no metadata.
CriticalExploitableScored ==
    /\ Scored
    /\ Len(vulns) = 1
    /\ vulns[1].Severity = "critical"
    /\ vulns[1].Exploitable
    /\ context["supply_chain_drift"].kind = "absent"
    /\ vulns[1].Metadata["llm_confidence"].kind = "absent"
    /\ vulns[1].RiskScore = Dec(15, 1)

\* C17: when the context holds a drift that is not negative and the
\* metadata a confidence, the score is (up to the cap and the two-decimal
\* rounding) the product
\* base * exploitCoeff * (1 + drift) * confidence of the README and of the
\* comment on CalculateRiskScore.
RiskScoreFollowsReadme ==
    Scored =>
        \A i \in 1..Len(vulns) :
            (/\ context["supply_chain_drift"].kind = "float64"
             /\ context["supply_chain_drift"].num >= 0
             /\ vulns[i].Metadata["llm_confidence"].kind = "float64")
            => LET num == 5 * BaseTenths(vulns[i].Severity)
                            * (IF vulns[i].Exploitable THEN 3 ELSE 2)
                            * (DriftDec(context).den + DriftDec(context).num)
                            * ConfDec(vulns[i]).num
                   den == DriftDec(context).den * ConfDec(vulns[i]).den
               IN NearestHundredth(Hundredths(vulns[i].RiskScore),
                                   IF num > 10000 * den THEN 10000 * den
                                   ELSE num,
                                   den)

\* The stored per-vulnerability scores, in hundredths, summed.
RECURSIVE SumHundredths(_, _)
SumHundredths(vs, i) ==
    IF i > Len(vs) THEN 0
    ELSE Hundredths(vs[i].RiskScore) + SumHundredths(vs, i + 1)

\* Number of vulnerabilities carrying the severity label sev.
Labelled(vs, sev) == Cardinality({i \in 1..Len(vs) : vs[i].Severity = sev})

\* Len(vs) * 100 * (mean + 5 * criticals + 2 * highs), the aggregate before
\* the cap, in hundredths times the number of vulnerabilities.
AggregateTimesLen(vs) ==
    SumHundredths(vs, 1)
       + Len(vs) * (500 * Labelled(vs, "critical")
                    + 200 * Labelled(vs, "high"))

\* C18: after Scoring no per-vulnerability score and no aggregate score is
\* above 100, and each one whose value before the cap exceeds 100 is
\* exactly 100.0.
ScoresCappedAt100 ==
    Scored =>
        /\ \A i \in 1..Len(vulns) :
              /\ FCmp(vulns[i].RiskScore, Hundred) <= 0
              /\ ExactNum(vulns[i], context)
                     > 10000 * ExactDen(vulns[i], context)
                  => vulns[i].RiskScore = Hundred
        /\ FCmp(riskScore, Hundred) <= 0
        /\ (Len(vulns) > 0 /\ AggregateTimesLen(vulns) > 10000 * Len(vulns))
              => riskScore = Hundred

\* C18 witness: with drift 50 a critical and a high vulnerability, both
\* exploitable (165 and 123.75 before the cap), scored 100.0 each, and the
\* aggregate (107 before the cap) is 100.0.
BothScoresCapped ==
    /\ Scored
    /\ Len(vulns) = 2
    /\ vulns[1].Severity = "critical"
    /\ vulns[2].Severity = "high"
    /\ \A i \in 1..2 :
          /\ vulns[i].RiskScore = Hundred
          /\ ExactNum(vulns[i], context) > 10000 * ExactDen(vulns[i], context)
    /\ AggregateTimesLen(vulns) = 10700 * Len(vulns)
    /\ riskScore = Hundred

\* C19: after Scoring every per-vulnerability score and the aggregate
\* score lie in [0, 100], whatever drift the context holds.
ScoresWithinRange ==
    Scored =>
        /\ \A i \in 1..Len(vulns) :
              /\ FCmp(vulns[i].RiskScore, FZero) >= 0
              /\ FCmp(vulns[i].RiskScore, Hundred) <= 0
        /\ FCmp(riskScore, FZero) >= 0
        /\ FCmp(riskScore, Hundred) <= 0

\* C20: the score is the exact product, capped, rounded half up to two
\* decimals (stated for the products that are not negative), and for
\* severity high, not exploitable, drift 0.5 and confidence 0.9 it is 8.09.
RoundsHalfUpOnExactProduct ==
    Scored =>
        \A i \in 1..Len(vulns) :
            /\ CappedNum(vulns[i], context) >= 0
                => Hundredths(vulns[i].RiskScore) =
                      (2 * CappedNum(vulns[i], context)
                         + ExactDen(vulns[i], context))
                      \div (2 * ExactDen(vulns[i], context))
            /\ (/\ vulns[i].Severity = "high"
                /\ ~vulns[i].Exploitable
                /\ context["supply_chain_drift"] = DecValue(1, 2)
                /\ vulns[i].Metadata["llm_confidence"] = DecValue(9, 10))
               => vulns[i].RiskScore = Dec(809, 100)

\* The aggregate before the cap is above 100: the cap applies.
AggregateCapped(vs) == AggregateTimesLen(vs) > 10000 * Len(vs)

\* C21: CalculateOverallRiskScore returns 0.0 for an empty list and
\* otherwise a two-decimal value nearest to min(mean of the stored scores
\* + 5.0 * (number labelled critical) + 2.0 * (number labelled high), 100),
\* the counts being taken from the severity labels whatever the stored
\* scores are.
OverallScoreFollowsFormula ==
    ret.fn = "CalculateOverallRiskScore" =>
        IF Len(vulns) = 0 THEN ret.val = FZero
        ELSE /\ ret.val = Dec(Hundredths(ret.val), 100)
             /\ NearestHundredth(Hundredths(ret.val),
                                 IF AggregateCapped(vulns)
                                 THEN 10000 * Len(vulns)
                                 ELSE AggregateTimesLen(vulns),
                                 Len(vulns))

\* C21 witness: a critical vulnerability storing 0 and an info one storing
\* 85 give (0 + 85) / 2 + 5 = 47.5.
LabelsDecideBonus ==
    /\ ret.fn = "CalculateOverallRiskScore"
    /\ Len(vulns) = 2
    /\ vulns[1].Severity = "critical" /\ vulns[1].RiskScore = FZero
    /\ vulns[2].Severity = "info" /\ vulns[2].RiskScore = Dec(85, 1)
    /\ ret.val = Dec(4750, 100)

\* C25: a call of CalculateRiskScore or CalculateOverallRiskScore changes
\* neither the vulnerabilities (risk-score field and metadata included), nor
\* the context, nor the host and patch sequences, nor the aggregate score,
\* the audit trail or any summary counter, and a call with the function and
\* arguments of the call before it returns the same result.
ScoreComputationPure ==
    [][ncalls' = ncalls + 1
        => /\ vulns' = vulns
           /\ context' = context
           /\ hosts' = hosts
           /\ patches' = patches
           /\ summary' = summary
           /\ riskScore' = riskScore
           /\ modulesExecuted' = modulesExecuted
           /\ (ret'.fn = ret.fn /\ ret'.arg = ret.arg)
                 => ret'.val = ret.val]_vars

\* C25 witness: CalculateRiskScore was called twice in a row and returned
\* 100.0 for a vulnerability that still stores 12.34.
ScoredTwiceUnchanged ==
    /\ ncalls = 2
    /\ ret.fn = "CalculateRiskScore"
    /\ ret.val = Hundred
    /\ vulns[ret.arg[1]].RiskScore = Dec(1234, 100)

\* C22: after the Scoring phase of a run every vulnerability's RiskScore is
\* the score CalculateRiskScore computes for it, whatever the field held
\* before, and Summary.HighRiskVulns is the number of vulnerabilities whose
\* score is 70 or more.
ScoringOverwritesAndCounts ==
    Scored =>
        /\ \A i \in 1..Len(vulns) :
              vulns[i].RiskScore =
                 CalculateRiskScore(vulns[i], context, fmaBuild)
        /\ summary.HighRiskVulns =
              Cardinality({i \in 1..Len(vulns) :
                             FCmp(vulns[i].RiskScore, FFromInt(70)) >= 0})

\* C22 witness: with drift 50 a critical, exploitable vulnerability scored
\* 100.0 and an info one scored 11.0, and one vulnerability is high-risk.
OneHighRiskCounted ==
    /\ Scored
    /\ Len(vulns) = 2
    /\ vulns[1].Severity = "critical" /\ vulns[1].RiskScore = Hundred
    /\ vulns[2].Severity = "info" /\ vulns[2].RiskScore = Dec(11, 1)
    /\ summary.HighRiskVulns = 1

\* Number of ports of all hosts that satisfy P.
RECURSIVE PortsWhere(_, _, _)
PortsWhere(hs, i, open) ==
    IF i > Len(hs) THEN 0
    ELSE Cardinality({j \in 1..Len(hs[i].Ports) :
                        open => hs[i].Ports[j].State = "open"})
         + PortsWhere(hs, i + 1, open)

\* C23: after the summary pass, whatever the counters held before it, every
\* derived counter equals the value recomputed from the results: hosts,
\* alive hosts, ports, open ports, the vulnerability counts by severity, the
\* exploitable count and the high-risk count (score of 70 or more).
SummaryRecomputed ==
    ret.fn = "updateScanSummary" =>
        /\ summary.TotalHosts = Len(hosts)
        /\ summary.AliveHosts =
              Cardinality({i \in 1..Len(hosts) :
                             hosts[i].Ports # << >>
                             \/ hosts[i].Services # << >>})
        /\ summary.TotalPorts = PortsWhere(hosts, 1, FALSE)
        /\ summary.OpenPorts = PortsWhere(hosts, 1, TRUE)
        /\ summary.TotalVulns = Len(vulns)
        /\ summary.CriticalVulns = Labelled(vulns, "critical")
        /\ summary.HighVulns = Labelled(vulns, "high")
        /\ summary.MediumVulns = Labelled(vulns, "medium")
        /\ summary.LowVulns = Labelled(vulns, "low")
        /\ summary.ExploitableVulns =
              Cardinality({i \in 1..Len(vulns) : vulns[i].Exploitable})
        /\ summary.HighRiskVulns =
              Cardinality({i \in 1..Len(vulns) :
                             FCmp(vulns[i].RiskScore, FFromInt(70)) >= 0})

\* C24: a second updateScanSummary in a row leaves every summary counter
\* with the value the first one gave it.
SummaryPassIdempotent ==
    [][(ret.fn = "updateScanSummary" /\ ncalls' = ncalls + 1)
          => summary' = summary]_vars

\* C24 witness: two passes in a row over two alive hosts and a
\* vulnerability, on counters that held 7 before.
TwoPassesOverStaleCounters ==
    /\ ret.fn = "updateScanSummary"
    /\ ncalls = 2
    /\ Len(hosts) = 2
    /\ summary.AliveHosts = 2
    /\ summary.TotalPorts = 3
    /\ summary.TotalVulns = 1
    /\ summary.HighRiskVulns = 7

\* C26: with the layer inactive, ExecuteModule invokes the module's Run
\* exactly once, with the cancellation signal and the Scan it was given, and
\* leaves the results and returns the error that the direct call of Run on
\* the same Scan leaves and returns.
LayerEquivalentToDirect ==
    [][(ncalls' = ncalls + 1 /\ ret'.fn = "ExecuteModule" /\ ~sandboxActive)
          => LET mod == ret'.arg[1]
                 direct == ModuleRun(mod, cancelled, ScanView)
             IN /\ runLog' = Append(runLog, [module |-> mod.name,
                                             sig |-> cancelled])
                /\ hosts' = direct.scan.hosts
                /\ vulns' = direct.scan.vulns
                /\ ret'.val = direct.err]_vars

\* C26 witness: through the inactive layer a module added a vulnerability
\* and returned its error, in one invocation.
FailedThroughInactiveLayer ==
    /\ ~sandboxActive
    /\ ncalls = 1
    /\ ret.fn = "ExecuteModule"
    /\ ret.val = "module error"
    /\ Len(runLog) = 1
    /\ Len(vulns) = 1

\* The Scoring phase has written everything it computes: each score, the
\* aggregate score and the counters.
FullyScored ==
    /\ \A i \in 1..Len(vulns) :
          vulns[i].RiskScore = CalculateRiskScore(vulns[i], context, fmaBuild)
    /\ riskScore = CalculateOverallRiskScore(vulns)
    /\ summary.TotalVulns = Len(vulns)
    /\ summary.CriticalVulns = Labelled(vulns, "critical")
    /\ summary.HighVulns = Labelled(vulns, "high")
    /\ summary.ExploitableVulns =
          Cardinality({i \in 1..Len(vulns) : vulns[i].Exploitable})
    /\ summary.HighRiskVulns =
          Cardinality({i \in 1..Len(vulns) :
                         FCmp(vulns[i].RiskScore, FFromInt(70)) >= 0})

\* C27: when the Reporting phase starts, the Scoring phase has completed and
\* every vulnerability carries its computed score, the aggregate score and
\* the counters are written; and from the end of Scoring to the end of
\* Reporting no step changes the results, the aggregate score or the
\* counters.
ReportingSeesScoredResults ==
    [][/\ (phase = NumPhases /\ pc = "enter") => FullyScored
       /\ (Scored \/ phase = NumPhases)
             => /\ hosts' = hosts
                /\ vulns' = vulns
                /\ patches' = patches
                /\ riskScore' = riskScore
                /\ summary' = summary]_vars

\* C27 witness: Reporting has returned over two scored vulnerabilities, one
\* of them high-risk.
ReportedAfterScoring ==
    /\ phase = NumPhases
    /\ pc = "check"
    /\ Len(vulns) = 2
    /\ FullyScored
    /\ summary.HighRiskVulns = 1

\* C28: when a phase function has returned an error, Execute has returned
\* an error that names that phase and wraps that error, and no later phase
\* has been started: no module of a later phase has been spawned or
\* admitted, and before Scoring no score or counter has been written.
PhaseErrorEndsRun ==
    /\ (/\ phase \in 1..LastModulePhase
        /\ gErr[phase] # "nil"
        /\ pc \in {"check", "done"})
          => /\ pc = "done"
             /\ outcome = [kind |-> "failed", phase |-> phase,
                           cause |-> gErr[phase]]
    /\ (pc = "done" /\ phase >= 1 /\ outcome.kind \notin {"completed",
                                                           "cancelled"})
          => /\ outcome.kind = "failed"
             /\ outcome.phase = phase
             /\ outcome.cause \in {"context canceled", "report error"}
             /\ \A m \in Names :
                   PhaseOf(m) > phase => gpc[m] = "idle" /\ res[m] = "none"
             /\ \A q \in (phase + 1)..LastModulePhase :
                   sem[q] = 0 /\ gErr[q] = "nil"
             /\ phase < 5 => riskScore = FZero /\ summary = ZeroSummary

\* C28 witness: the Scanning phase returned an error and Execute returned
\* it as the failure of that phase.
ScanningPhaseFailed ==
    /\ pc = "done"
    /\ phase = 2
    /\ PhaseNames[phase] = "Scanning"
    /\ gErr[phase] = "context canceled"
    /\ outcome = [kind |-> "failed", phase |-> 2,
                  cause |-> "context canceled"]

\* Nothing of any phase has happened: no phase entered, no Prerequisites()
\* called, no module spawned or run, and the results and the audit trail
\* are empty.
NothingStarted ==
    /\ phase = 0
    /\ probed = {}
    /\ active = << >>
    /\ \A m \in Names : gpc[m] = "idle" /\ res[m] = "none"
    /\ hosts = << >>
    /\ vulns = << >>
    /\ patches = << >>
    /\ modulesExecuted = << >>

\* C29: until target validation has run nothing of any phase has happened;
\* with an empty target list Execute has then failed with the validation
\* error and still nothing has happened; with a non-empty list validation
\* has succeeded and Discovery has been started.
ValidationBeforeDiscovery ==
    /\ pc = "validate" => NothingStarted /\ outcome = NoOutcome
    /\ (pc # "validate" /\ Len(targets) = 0)
          => /\ NothingStarted
             /\ pc = "done"
             /\ outcome = [kind |-> "failed", phase |-> 0,
                           cause |-> "no targets specified"]
    /\ (pc # "validate" /\ Len(targets) > 0)
          => /\ phase >= 1
             /\ outcome.cause # "no targets specified"
             /\ (phase = 1 /\ pc = "enter") => outcome = NoOutcome

\* C29 witness: Execute has returned the validation error for an empty
\* target list.
EmptyTargetsRejected ==
    /\ Len(targets) = 0
    /\ pc = "done"
    /\ outcome.cause = "no targets specified"
    /\ NothingStarted

\* A SetContext on key k has taken the mutex and has not returned.
SetInProgress(k) ==
    \E d \in CtxCallers :
       cop[d].op = "set" /\ cop[d].key = k /\ cpc[d] \in {"locked", "writing"}

\* C30: under every interleaving of the callers, a GetContext(k) that
\* reads while no SetContext on k is in progress returns the value of the
\* last SetContext on k that returned, and not-found when there was none;
\* and a SetContext on k stores its value under k and leaves the value of
\* every other key as it was.
ContextIsKeyValueMap ==
    [][\A c \in CtxCallers :
          /\ (cpc[c] = "rlocked" /\ cpc'[c] = "done"
              /\ ~SetInProgress(cop[c].key))
                => cres'[c] = settled[cop[c].key]
          /\ (cpc[c] = "writing" /\ cpc'[c] = "done")
                => /\ context'[cop[c].key] = cop[c].value
                   /\ \A j \in CtxKeys \ {cop[c].key} :
                         context'[j] = context[j]]_vars

\* C30 witness: after SetContext("test_key", string) and a SetContext on the
\* other key returned, GetContext("test_key") returned the string.
GetAfterSetsReturnsValue ==
    /\ \A c \in CtxCallers : cpc[c] = "done"
    /\ cop["g1"] = [op |-> "set", key |-> "test_key", value |-> StringValue]
    /\ cop["g2"].op = "set" /\ cop["g2"].key = "supply_chain_drift"
    /\ cop["g3"] = [op |-> "get", key |-> "test_key", value |-> NoValue]
    /\ cres["g3"] = StringValue
    /\ context["test_key"] = StringValue
    /\ context["supply_chain_drift"] = cop["g2"].value

\* C31: the Results helpers take only Results.mu and the context helpers
\* only Scan.mu: a goroutine of one kind never holds the other mutex, and a
\* context call (a Results call) can take its mutex whenever that mutex
\* allows it, whoever holds the other one.
GuardsIndependent ==
    /\ mu \notin CtxCallers
    /\ scanMu.writer \notin Workers
    /\ scanMu.readers \cap Workers = {}
    /\ \A c \in GuardCallers :
          /\ (cpc[c] = "call" /\ cop[c].op = "get" /\ scanMu.writer = "none")
                => ENABLED GetRLock(c)
          /\ (cpc[c] = "call" /\ cop[c].op = "set"
              /\ scanMu.writer = "none" /\ scanMu.readers = {})
                => ENABLED SetLock(c)
    /\ \A w \in Workers :
          (gpc[w] = "run" /\ Len(calls[w]) < MaxCalls /\ mu = "free")
             => ENABLED AddLock(w, "host") /\ ENABLED BleedLock(w)

\* C31 witness: a goroutine holds Scan.mu inside SetContext while another
\* holds Results.mu inside SetBleedingEdgeResult.
BothGuardsHeld ==
    /\ scanMu.writer = "g1"
    /\ mu = "w1"
    /\ callKind["w1"] = "bleeding"

\* The modules the registry holds: the one it started with and those of
\* the goroutines whose Register returned.
RegisteredModules ==
    {TestRegistry["test-module"]}
       \cup {pending[r] : r \in {q \in Registrars : rpc[q] = "done"}}

\* C32: the registry is a function of the set of registered modules, not of
\* the order of the Register calls: GetModule finds exactly the registered
\* module of that name, GetModulesByCategory gives exactly the registered
\* modules of the category, and the rows of ListModules are the modules
\* that were registered at the call, each once, stable rows before
\* bleeding-edge rows and names ascending within a category, whatever the
\* order of registration and of map iteration.
RegistrationOrderUnobservable ==
    /\ \A n \in RegNames :
          GetModule(registry, n) =
             IF \E m \in RegisteredModules : m.name = n
             THEN [module |-> CHOOSE m \in RegisteredModules : m.name = n,
                   exists |-> TRUE]
             ELSE [module |-> NoModule, exists |-> FALSE]
    /\ \A c \in Categories :
          GetModulesByCategory(registry, c) =
             {m \in RegisteredModules : m.category = c}
    /\ ret.fn = "ListModules" =>
          LET rows == SelectSeq(ret.val, LAMBDA r : r # SeparatorRow)
          IN  /\ Range(rows) = {Row(registry[n]) : n \in Range(ret.arg)}
              /\ Len(rows) = Len(ret.arg)
              /\ \A i, j \in 1..Len(rows) :
                    i < j =>
                       \/ /\ rows[i].category = "stable"
                          /\ rows[j].category = "bleeding-edge"
                       \/ /\ rows[i].category = rows[j].category
                          /\ StringLess(rows[i].name, rows[j].name)

\* C32 witness: three modules were registered next to the first one, the
\* map was iterated in descending name order and the table lists the
\* stable modules by ascending name, then the bleeding-edge module.
ListedSortedByCategoryAndName ==
    /\ \A r \in Registrars : rpc[r] = "done"
    /\ pending["r1"] = Module("gamma", "stable", 1)
    /\ pending["r2"] = Module("beta", "bleeding-edge", 2)
    /\ pending["r3"] = Module("alpha", "stable", 3)
    /\ ret.fn = "ListModules"
    /\ ret.arg = <<"test-module", "gamma", "beta", "alpha">>
    /\ ret.val = <<Row(Module("alpha", "stable", 3)),
                   Row(Module("gamma", "stable", 1)),
                   Row(Module("test-module", "stable", 4)),
                   SeparatorRow,
                   Row(Module("beta", "bleeding-edge", 2))>>

\* The step of runScoringPhase.
ScoringStep == pc = "enter" /\ phase = 5 /\ pc' = "check"

\* C33: in every step of a run the vulnerability list keeps its entries, in
\* place and with all their fields but the risk score; the risk scores are
\* written only by the step of the Scoring phase, which adds no entry and
\* gives every entry its computed score; and that step happens once, as the
\* phases only advance.
VulnsAppendOnly ==
    [][/\ Len(vulns') >= Len(vulns)
       /\ \A i \in 1..Len(vulns) :
             /\ [vulns'[i] EXCEPT !.RiskScore = FZero]
                   = [vulns[i] EXCEPT !.RiskScore = FZero]
             /\ vulns'[i].RiskScore # vulns[i].RiskScore => ScoringStep
       /\ ScoringStep =>
             /\ Len(vulns') = Len(vulns)
             /\ \A i \in 1..Len(vulns) :
                   vulns'[i].RiskScore
                      = CalculateRiskScore(vulns[i], context, fmaBuild)
       /\ phase' >= phase
       /\ (phase' = 5 /\ pc' = "enter") => (phase = 4 \/ pc = "enter")]_vars

\* C33 witness: two modules appended a finding each, the run completed, and
\* the entries hold the scores of the Scoring phase.
FindingsKeptAndScored ==
    /\ outcome.kind = "completed"
    /\ Len(vulns) = 2
    /\ vulns[1].Severity = "critical"
    /\ vulns[2].Severity = "info"
    /\ vulns[1].RiskScore # FZero
    /\ {"vuln"} = {calls[m][1] : m \in FindingModules}

\* C34: under fair scheduling a module waiting at the admission select
\* leaves it (admitted, or released by the cancellation signal), every
\* phase that was started returns, and Execute ends completed, failed or
\* cancelled.
ExecuteTerminates ==
    /\ \A m \in LiveModules :
          (gpc[m] = "select")
             ~> (gpc[m] \in {"run", "locked"} \/ res[m] # "none")
    /\ \A p \in 1..NumPhases :
          (phase = p /\ pc = "enter") ~> (phase > p \/ pc \in {"check", "done"})
    /\ <>(/\ pc = "done"
          /\ outcome.kind \in {"completed", "failed", "cancelled"})

\* C34 witness: a module waits at the admission select while three admitted
\* modules hold all slots of the pool and no cancellation was signalled.
WaitingForFullPool ==
    /\ ~cancelled
    /\ phase = LastModulePhase
    /\ sem[phase] = SemCapacity
    /\ \E m \in Range(active) : gpc[m] = "select"

\* Position of name n in the sequence s (0 when absent).
IndexIn(s, n) ==
    IF n \in Range(s) THEN CHOOSE i \in 1..Len(s) : s[i] = n ELSE 0

\* Some goroutine of the phase's group exists.
GroupStarted == \E m \in Range(PhaseModules(phase)) : gpc[m] # "idle"

\* C35: the filter of a phase calls Prerequisites() one module per step, in
\* the order of the phase's static name list and on exactly the listed
\* names registered under the phase's category, whatever order the
\* registry was iterated in; the surviving modules are the checked ones
\* that were not rejected, in that order; and no goroutine of the phase
\* exists before the last name of the list has been dealt with.
PrereqsInListOrder ==
    [][(phase' \in 1..LastModulePhase /\ pc' \in {"filter", "spawn", "wait"})
        => LET names == PhaseModules(phase')
               seen == SubSeq(names, 1, nameIdx')
           IN  /\ prereqLog' =
                     ResolveNames(seen, registry', PhaseCategory(phase'))
               /\ active' = SelectSeq(prereqLog', LAMBDA n : n \notin rejected')
               /\ \A i, j \in 1..Len(active') :
                     i < j => IndexIn(names, active'[i])
                                 < IndexIn(names, active'[j])
               /\ Len(prereqLog') <= Len(prereqLog) + 1
               /\ GroupStarted' =>
                     /\ nameIdx' = Len(names)
                     /\ prereqLog' = prereqLog
                     /\ active' = active]_vars

\* C35 witness: the registry's map was iterated with amass before
\* subfinder, Prerequisites() was called on subfinder, then on amass, both
\* survived, and subfinder's run has started.
CheckedThenStarted ==
    /\ phase = 1
    /\ pc = "wait"
    /\ Len(availableModules) = 2
    /\ availableModules[1].name = "amass"
    /\ prereqLog = <<"subfinder", "amass">>
    /\ active = <<"subfinder", "amass">>
    /\ gpc["subfinder"] = "run"
    /\ gpc["amass"] = "select"

\* C36: the context handed to the module runs and to the admission select
\* of a phase is done only if the context of the run is cancelled, whatever
\* the modules returned; and executeModules returns an error (the phase
\* fails) only then.
SiblingsSeeOnlyRunCancellation ==
    /\ \A p \in 1..LastModulePhase :
          gCtxDone(cancelled, gErr[p]) => cancelled
    /\ (outcome.kind = "failed" /\ outcome.phase \in 1..LastModulePhase)
          => cancelled

\* C36 witness: a module of the phase has returned an error while a sibling
\* waits for admission and another runs; the group has no error and its
\* context is not done.
ModuleFailedSiblingsUndisturbed ==
    /\ ~cancelled
    /\ pc = "wait"
    /\ gErr[phase] = "nil"
    /\ ~gCtxDone(cancelled, gErr[phase])
    /\ \E m, n, k \in Range(active) :
          /\ res[m] = "err" /\ gpc[m] = "done"
          /\ gpc[n] = "select"
          /\ gpc[k] = "run"

\* C37: Execute returns success exactly from the check after the sixth
\* phase with the signal not raised; a check is reached only after the
\* phase returned nil, the next phase is started only from a check that
\* found the signal not raised (so a success has passed all six), and a
\* check that finds the signal raised, the one after Reporting included,
\* returns the cancellation outcome.
SuccessIffAllPhasesAndChecks ==
    [][/\ (pc # "done" /\ pc' = "done") =>
             (outcome'.kind = "completed"
                 <=> (pc = "check" /\ phase = NumPhases /\ ~cancelled))
       /\ pc' = "check" =>
             \A p \in 1..LastModulePhase : p <= phase' => gErr'[p] = "nil"
       /\ phase' # phase =>
             /\ phase' = phase + 1
             /\ phase >= 1 => (pc = "check" /\ ~cancelled)
       /\ (pc = "check" /\ cancelled /\ pc' # pc) =>
             /\ pc' = "done"
             /\ outcome' = [kind |-> "cancelled", phase |-> phase,
                            cause |-> "context canceled"]]_vars

\* C37 witness: the signal came while Reporting was in progress; report
\* generation returned nil and Execute returned the cancellation outcome.
CancelledAfterReporting ==
    /\ pc = "done"
    /\ outcome.kind = "cancelled"
    /\ outcome.phase = NumPhases
    /\ cancelled

\* C38: the name lists of the phases have no name in common and none
\* twice; a goroutine is started only for an idle module, by the g.Go loop
\* of the phase whose list names it; a module's run starts only from that
\* goroutine's admission; the g.Go loop of a phase is reached once, as a
\* phase is entered only by advancing to it; and no name is in the audit
\* trail twice.
RunAtMostOnce ==
    [][/\ \A p, q \in 1..LastModulePhase :
             /\ p # q =>
                   Range(PhaseModules(p)) \cap Range(PhaseModules(q)) = {}
             /\ Cardinality(Range(PhaseModules(p))) = Len(PhaseModules(p))
       /\ \A m \in Names :
             /\ (gpc[m] # "select" /\ gpc'[m] = "select") =>
                   /\ gpc[m] = "idle"
                   /\ pc = "spawn" /\ pc' = "wait"
                   /\ m \in Range(PhaseModules(phase))
                   /\ Count(active, m) = 1
             /\ (gpc[m] \notin {"run", "locked"} /\ gpc'[m] = "run") =>
                   /\ gpc[m] = "select"
                   /\ pc = "wait"
                   /\ m \in Range(PhaseModules(phase))
             /\ Count(modulesExecuted', m) <= 1
       /\ (pc # "spawn" /\ pc' = "spawn") => pc = "enter"
       /\ (pc # "enter" /\ pc' = "enter") => phase' = phase + 1
       /\ phase' >= phase]_vars

\* C38 witness: a run completed in which the port scanner and the four
\* bleeding-edge modules each ran, and each is in the audit trail once.
EveryModuleRanOnce ==
    /\ outcome.kind = "completed"
    /\ Len(modulesExecuted) = 5
    /\ \A m \in LiveModules : Count(modulesExecuted, m) = 1

\* The value is absent or a float64 within [0, 1].
AbsentOrUnit(v) ==
    \/ v.kind = "absent"
    \/ /\ v.kind = "float64"
       /\ FCmp(v.f, FZero) >= 0
       /\ FCmp(v.f, One) <= 0

\* C39: after the Scoring phase, when the context has no float64 drift and
\* every LLM confidence is absent or within [0, 1], every vulnerability's
\* score is at most 15 and the high-risk counter is 0.
ScoresBoundedWithoutDrift ==
    (/\ phase >= 5
     /\ pc # "enter" \/ phase > 5
     /\ context["supply_chain_drift"].kind # "float64"
     /\ \A i \in 1..Len(vulns) :
           AbsentOrUnit(vulns[i].Metadata["llm_confidence"]))
       => /\ \A i \in 1..Len(vulns) :
                /\ FCmp(vulns[i].RiskScore, FFromInt(15)) <= 0
                /\ FCmp(vulns[i].RiskScore, highRiskThreshold) < 0
          /\ summary.HighRiskVulns = 0

\* C39 witness: a critical exploitable vulnerability with confidence 1 and
\* no drift was scored 15, next to a second one, and none counts as high
\* risk.
ScoredFifteen ==
    /\ phase = 5
    /\ pc = "check"
    /\ context["supply_chain_drift"].kind = "absent"
    /\ Len(vulns) = 2
    /\ vulns[1] = [Vulnerability("critical", TRUE, DecValue(1, 1))
                      EXCEPT !.RiskScore = FFromInt(15)]
    /\ AbsentOrUnit(vulns[2].Metadata["llm_confidence"])
    /\ summary.HighRiskVulns = 0

\* The modules of phase p that were admitted and whose executeModule has
\* not returned.
Admitted(p) ==
    {m \in Range(PhaseModules(p)) : gpc[m] \in {"run", "locked", "audit"}}

\* C40: in every state the occupied slots of a phase's pool are as many as
\* its admitted modules that have not returned; the return of an admitted
\* module, failed or not, frees one slot; a module that leaves the
\* admission select by cancellation leaves the pool as it is; and the pool
\* is empty whenever the phase has returned.
SlotsMatchAdmitted ==
    [][/\ \A p \in 1..LastModulePhase :
             sem'[p] = Cardinality(Admitted(p)')
       /\ \A m \in Names :
             /\ (gpc[m] = "select" /\ gpc'[m] = "done") =>
                   /\ sem' = sem
                   /\ res'[m] = "canceled"
             /\ (gpc[m] \in {"run", "audit"} /\ gpc'[m] = "done") =>
                   /\ sem' = [sem EXCEPT ![PhaseOf(m)] = @ - 1]
                   /\ res'[m] \in {"ok", "err"}
             /\ (gpc[m] = "select" /\ gpc'[m] = "run") =>
                   sem' = [sem EXCEPT ![PhaseOf(m)] = @ + 1]
       /\ (phase' \in 1..LastModulePhase /\ pc' \in {"check", "done"}) =>
             sem'[phase'] = 0]_vars

\* C40 witness: of four modules one failed and freed its slot, one left
\* the admission select by cancellation, and two still run in two slots.
TwoSlotsForTwoRunning ==
    /\ phase = LastModulePhase
    /\ pc = "wait"
    /\ sem[phase] = 2
    /\ Cardinality(Admitted(phase)) = 2
    /\ \E m, n \in Range(active) :
          /\ gpc[m] = "done" /\ res[m] = "err"
          /\ gpc[n] = "done" /\ res[n] = "canceled"

====
